---- MODULE Spec2Model ----
(***************************************************************************)
(* Product catalog mutations (createProduct, updateProduct, deleteProduct  *)
(* of src/src/controllers/admin/product/product.js) over the document      *)
(* store: the product collection, the productCount counters of Category    *)
(* and Color, the transactional session of each request and the asset      *)
(* store holding the variants' images.                                     *)
(*                                                                         *)
(* Every awaited store call whose result another request can change is a   *)
(* step of its own.  Reads of Category and Color documents are stable (no  *)
(* handler of the repository inserts or deletes one), so they are taken    *)
(* together with the step that precedes them.                              *)
(***************************************************************************)
EXTENDS Integers, Sequences, FiniteSets, TLC

\* ------------------------------------------------------------------ bounds
MaxProducts == 2     \* product ids
MaxPayload == 2      \* entries of a request's variants list
MaxList == 2         \* elements of a list a query parameter carries
MaxName == 4         \* characters of a string given to the slug normalizer

\* ------------------------------------------------------------- vocabulary
Absent == "absent"            \* a field the request does not carry (undefined)
NoName == << >>               \* a name that is undefined or the empty string
Slots == {1, 2}               \* requests in flight at the same time
ProductIds == 1 .. MaxProducts

Categories == {"cA", "cB"}    \* the stored Category documents
GhostCategory == "cG"         \* a well-formed id of no stored Category
Brands == {"b1"}              \* the Brand documents stored at the start
BrandIds == {"b1", "b2"}      \* the ids Brand documents get
GhostBrand == "bG"            \* a well-formed id of no stored Brand
Colors == {"X", "Y", "Z"}     \* the stored Color documents
GhostColor == "cW"            \* a well-formed id of no stored Color
NoColor == "nocolor"          \* a variant entry without a color
ObjString == "[object Object]" \* what toString() gives for a populated color

\* Names are sequences of one-character strings.
Tee == << "T", "e", "e" >>
TeeBang == << "t", "e", "e", "!" >>
Cap == << "-", "C", " ", "a", "p" >>

\* ------------------------------------------------------- slug normalizer
UpperCase == << "A", "B", "C", "D", "E", "F", "G", "H", "I", "J", "K", "L", "M",
                "N", "O", "P", "Q", "R", "S", "T", "U", "V", "W", "X", "Y", "Z" >>
LowerCase == << "a", "b", "c", "d", "e", "f", "g", "h", "i", "j", "k", "l", "m",
                "n", "o", "p", "q", "r", "s", "t", "u", "v", "w", "x", "y", "z" >>
Digits == {"0", "1", "2", "3", "4", "5", "6", "7", "8", "9"}
AlphaNum == {LowerCase[i] : i \in DOMAIN LowerCase} \cup Digits

\* String.prototype.toLowerCase, one character
ToLowerChar(c) ==
  IF \E i \in DOMAIN UpperCase : UpperCase[i] = c
    THEN LowerCase[CHOOSE i \in DOMAIN UpperCase : UpperCase[i] = c]
    ELSE c

ToLowerCase(s) == [i \in DOMAIN s |-> ToLowerChar(s[i])]

\* a replacement that turns every character outside [a-z0-9] into a hyphen
\* of its own
RECURSIVE ReplaceEach(_, _)
ReplaceEach(s, inRun) ==
  IF s = << >> THEN << >>
  ELSE IF Head(s) \in AlphaNum THEN << Head(s) >> \o ReplaceEach(Tail(s), FALSE)
  ELSE << "-" >> \o ReplaceEach(Tail(s), TRUE)

\* .replace(/[^a-z0-9]+/g, '-'): every maximal run of characters outside
\* [a-z0-9] becomes one hyphen
RECURSIVE ReplaceRuns(_, _)
ReplaceRuns(s, inRun) ==
  IF s = << >> THEN << >>
  ELSE IF Head(s) \in AlphaNum THEN << Head(s) >> \o ReplaceRuns(Tail(s), FALSE)
  ELSE IF inRun THEN ReplaceRuns(Tail(s), TRUE)
  ELSE << "-" >> \o ReplaceRuns(Tail(s), TRUE)

\* .replace(/^-+|-+$/g, ''): leading and trailing hyphens removed
RECURSIVE StripLeading(_)
StripLeading(s) ==
  IF s # << >> /\ Head(s) = "-" THEN StripLeading(Tail(s)) ELSE s

RECURSIVE StripTrailing(_)
StripTrailing(s) ==
  IF s # << >> /\ s[Len(s)] = "-"
    THEN StripTrailing(SubSeq(s, 1, Len(s) - 1))
    ELSE s

Slugify(name) == StripTrailing(StripLeading(ReplaceRuns(ToLowerCase(name), FALSE)))

\* ------------------------------------------------------------------ state
VARIABLES
  products,   \* the Product collection: id -> document, for the stored ids
  catCount,   \* Category.productCount
  colCount,   \* Color.productCount
  destroyed,  \* <<product id, variant index>> of stored image records whose
              \* asset was destroyed in the asset store
  pc,         \* per request slot: the next awaited call of its handler
  rq,         \* per request slot: the handler's local variables
  tx,         \* per request slot: the writes made under its session, not yet committed
  last,       \* the last response sent
  call,       \* a call of a read-only handler or of a function: its input, its
              \* position and what it has computed
  brandDocs   \* the Brand collection: id -> document, for the stored ids

vars == << products, catCount, colCount, destroyed, pc, rq, tx, last, call, brandDocs >>
store == << products, catCount, colCount >>

\* A stored variant is [color, img]; its _id is its position in the list
\* (variants are only ever appended).  A variant held by a handler is
\* [color, form, img]: form "id" when color is the plain id string, "doc" when
\* it is the populated Color object.
StoredVariant(v) == [color |-> v.color, img |-> v.img]
Populated(v) == [color |-> v.color, form |-> "doc", img |-> v.img]

RECURSIVE SeqRange(_)
SeqRange(s) == IF s = << >> THEN {} ELSE {Head(s)} \cup SeqRange(Tail(s))

\* sequences over S of length lo .. hi
RECURSIVE SeqsUpTo(_, _)
SeqsUpTo(S, n) ==
  IF n = 0 THEN { << >> }
  ELSE LET shorter == SeqsUpTo(S, n - 1)
       IN  shorter \cup { Append(s, x) : s \in {t \in shorter : Len(t) = n - 1}, x \in S }

Exists(p) == p \in DOMAIN products

\* The slug lookup finds nothing: the handlers go on to write a slug that
\* another product holds.
SlugLookupBlind(slug, except) == FALSE

\* Product.findOne({ slug }), and the comparison of the found _id with the
\* request's own id
SlugTaken(slug, except) ==
  \E p \in DOMAIN products : p \notin except /\ products[p].slug = slug

NoDelta(S) == [x \in S |-> 0]
EmptyTx == [prod |-> << >>, catD |-> NoDelta(Categories), colD |-> NoDelta(Colors)]
IdleRq ==
  [op |-> "none", pid |-> 1, name |-> NoName, slug |-> << >>, category |-> Absent,
   brand |-> Absent, variants |-> << >>, files |-> {}, old |-> << >>,
   zero |-> FALSE, neither |-> FALSE]

Response(op, status, cause, zero) ==
  [op |-> op, status |-> status, cause |-> cause, zero |-> zero]

NoResponse == Response("none", 0, "none", FALSE)

\* no read-only call is being followed
NoCall == [fn |-> "none"]

\* BrandSchema.pre('save'): the slug is derived from the name when the
\* document has none
PreSave(doc) ==
  IF doc.slug = << >> /\ doc.name # << >>
    THEN [doc EXCEPT !.slug = Slugify(doc.name)]
    ELSE doc

Acme == << "A", "c", "m", "e" >>
Apex == << "A", "p", "e", "x", "!" >>
InitialBrands == [b \in Brands |-> PreSave([name |-> Acme, slug |-> << >>])]

Init ==
  /\ products = << >>
  /\ catCount = NoDelta(Categories)
  /\ colCount = NoDelta(Colors)
  /\ destroyed = {}
  /\ pc = [r \in Slots |-> "idle"]
  /\ rq = [r \in Slots |-> IdleRq]
  /\ tx = [r \in Slots |-> EmptyTx]
  /\ last = NoResponse
  /\ brandDocs = InitialBrands
  /\ call = NoCall

\* The handler of slot r answers and ends.
Respond(r, op, status, cause, zero) ==
  /\ pc' = [pc EXCEPT ![r] = "idle"]
  /\ rq' = [rq EXCEPT ![r] = IdleRq]
  /\ tx' = [tx EXCEPT ![r] = EmptyTx]
  /\ last' = Response(op, status, cause, zero)

\* session.abortTransaction(): the session's writes are dropped
Abort(r, op, cause) ==
  /\ Respond(r, op, 500, cause, rq[r].zero)
  /\ UNCHANGED << products, catCount, colCount, destroyed, call, brandDocs >>

\* Counters written back from a read made before another request's commit:
\* the +1s of a create that has just committed are overwritten.
CommitOverwritingCounters(r) ==
  LET done == { q \in Slots \ {r} : pc[q] = "c_fetch" }
      lostCat(c) == Cardinality({ q \in done : rq[q].category = c /\ tx[r].catD[c] # 0 })
      lostCol(c) ==
        Cardinality({ q \in done :
                        /\ tx[r].colD[c] # 0
                        /\ \E i \in DOMAIN rq[q].variants : rq[q].variants[i].color = c })
  IN  /\ products' =
           IF tx[r].prod = << >> THEN products
           ELSE [q \in DOMAIN products \cup {rq[r].pid} |->
                   IF q = rq[r].pid THEN tx[r].prod[1] ELSE products[q]]
      /\ catCount' = [c \in Categories |-> catCount[c] + tx[r].catD[c] - lostCat(c)]
      /\ colCount' = [c \in Colors |-> colCount[c] + tx[r].colD[c] - lostCol(c)]

\* session.commitTransaction(): the session's writes are applied together
CommitTransaction(r) ==
  /\ products' =
       IF tx[r].prod = << >> THEN products
       ELSE [q \in DOMAIN products \cup {rq[r].pid} |->
               IF q = rq[r].pid THEN tx[r].prod[1] ELSE products[q]]
  /\ catCount' = [c \in Categories |-> catCount[c] + tx[r].catD[c]]
  /\ colCount' = [c \in Colors |-> colCount[c] + tx[r].colD[c]]

\* The category counter is left as it was.
IncCategoryDropped(t, id, d) == t

\* Model.findByIdAndUpdate(id, {$inc: {productCount: d}}, {session}): a
\* no-op when no document has that id
IncCategory(t, id, d) ==
  IF id \in Categories THEN [t EXCEPT !.catD[id] = @ + d] ELSE t

\* Color.updateMany({_id: {$in: ids}}, {$inc: {productCount: d}}, {session})
IncColors(t, ids, d) ==
  [t EXCEPT !.colD = [c \in Colors |-> IF c \in ids THEN @[c] + d ELSE @[c]]]

\* A collection without the index: every write is accepted.
SlugIndexAbsent(r, slug) == FALSE

\* The unique index on Product.slug: a write of a slug another document
\* holds, committed or written under another open session, is refused.
SlugIndexRefuses(r, slug) ==
  \/ \E p \in DOMAIN products : p # rq[r].pid /\ products[p].slug = slug
  \/ \E q \in Slots \ {r} : tx[q].prod # << >> /\ tx[q].prod[1].slug = slug

\* ------------------------------------------------------- request payloads
\* A body field as it arrives: undefined, an array, or a string holding the
\* JSON text of an array or of one object.
Undefined == [kind |-> "undefined"]
ArrayOf(items) == [kind |-> "array", items |-> items]
JsonArray(items) == [kind |-> "string", json |-> [kind |-> "array", items |-> items]]
JsonObject(item) == [kind |-> "string", json |-> [kind |-> "object", item |-> item]]

\* the field holds no variant: absent, [] or the text "[]"
ZeroVariants(field) ==
  \/ field.kind = "undefined"
  \/ field.kind = "array" /\ field.items = << >>
  \/ field.kind = "string" /\ field.json.kind = "array" /\ field.json.items = << >>

\* A parser that wraps whatever the JSON text holds into one entry, the text
\* of an array included.
ParseJsonFieldWrapping(field) ==
  IF field.kind = "undefined" THEN << >>
  ELSE IF field.kind = "array" THEN field.items
  ELSE IF field.json.kind = "array" THEN << [color |-> NoColor] >>
  ELSE << field.json.item >>

\* parseJsonField(field, 'variants') of createProduct
ParseJsonField(field) ==
  IF field.kind = "undefined" THEN << >>
  ELSE IF field.kind = "array" THEN field.items
  ELSE IF field.json.kind = "array" THEN field.json.items
  ELSE << field.json.item >>

\* variants.map((v) => v.color).filter(Boolean)
ColorIdList(variants) ==
  SelectSeq([i \in DOMAIN variants |-> variants[i].color], LAMBDA c : c # NoColor)

\* Color.find({_id: {$in: ids}}).length
FoundColors(ids) == Cardinality(SeqRange(ids) \cap Colors)

\* [...new Set(variants.map((v) => v.color).filter(Boolean))]
DistinctColors(variants) == SeqRange(ColorIdList(variants))

\* the product ids no stored document and no request in flight holds
FreeIds ==
  { p \in ProductIds :
      /\ p \notin DOMAIN products
      /\ \A q \in Slots : ~(rq[q].op = "create" /\ rq[q].pid = p) }

Reject(op, status, zero) ==
  /\ last' = Response(op, status, "client", zero)
  /\ UNCHANGED << products, catCount, colCount, destroyed, pc, rq, tx, call, brandDocs >>

\* ----------------------------------------------------------- createProduct
\* Lines 150-261: the body is parsed, the required fields, the category, the
\* brand and the variants' colors are checked.
StartCreate(r, in) ==
  /\ pc[r] = "idle"
  /\ last = NoResponse
  /\ FreeIds # {}
  /\ LET variants == ParseJsonField(in.variants)
         zero == ZeroVariants(in.variants)
         colorIds == ColorIdList(variants)
     IN  IF in.name = NoName \/ in.category = Absent \/ in.brand = Absent
              \/ in.price = Absent \/ Len(variants) = 0
           THEN Reject("create", 422, zero)
         ELSE IF in.category \notin Categories THEN Reject("create", 400, zero)
         ELSE IF in.brand \notin DOMAIN brandDocs THEN Reject("create", 400, zero)
         ELSE IF FoundColors(colorIds) # Len(colorIds) THEN Reject("create", 400, zero)
         ELSE /\ pc' = [pc EXCEPT ![r] = "c_slug"]
              /\ rq' = [rq EXCEPT ![r] =
                          [op |-> "create",
                           pid |-> CHOOSE p \in FreeIds : \A q \in FreeIds : p <= q,
                           name |-> in.name, slug |-> Slugify(in.name),
                           category |-> in.category, brand |-> in.brand,
                           variants |-> [i \in DOMAIN variants |->
                                           [color |-> variants[i].color, form |-> "id",
                                            img |-> FALSE]],
                           files |-> in.files, old |-> << >>, zero |-> zero,
                           neither |-> FALSE]]
              /\ UNCHANGED << products, catCount, colCount, destroyed, tx, last, call, brandDocs >>

\* Lines 273-291: uploads are attached to the variant their field names
AssignImages(variants, files) ==
  IF files = {} THEN variants
  ELSE [i \in DOMAIN variants |-> [variants[i] EXCEPT !.img = (i \in files)]]

HasImages(variants) == \E i \in DOMAIN variants : variants[i].img

NewProduct(q) ==
  [name |-> q.name, slug |-> q.slug, category |-> q.category, brand |-> q.brand,
   variants |-> [i \in DOMAIN q.variants |-> StoredVariant(q.variants[i])]]

\* Lines 263-325: the slug lookup, the images, the session
CreateSlug(r) ==
  /\ pc[r] = "c_slug"
  /\ LET variants == AssignImages(rq[r].variants, rq[r].files)
     IN  IF SlugTaken(rq[r].slug, {})
           THEN /\ Respond(r, "create", 409, "client", rq[r].zero)
                /\ UNCHANGED << products, catCount, colCount, destroyed, call, brandDocs >>
         ELSE IF ~HasImages(variants) /\ rq[r].files # {}
           THEN /\ Respond(r, "create", 400, "client", rq[r].zero)
                /\ UNCHANGED << products, catCount, colCount, destroyed, call, brandDocs >>
         ELSE /\ pc' = [pc EXCEPT ![r] = "c_save"]
              /\ rq' = [rq EXCEPT ![r].variants = variants]
              /\ UNCHANGED << products, catCount, colCount, destroyed, tx, last, call, brandDocs >>

\* The save made without the session: the document is stored at once.
CreateSaveOutsideSession(r) ==
  /\ pc[r] = "c_save"
  /\ products' = [q \in DOMAIN products \cup {rq[r].pid} |->
                    IF q = rq[r].pid THEN NewProduct(rq[r]) ELSE products[q]]
  /\ pc' = [pc EXCEPT ![r] = "c_inccat"]
  /\ UNCHANGED << catCount, colCount, destroyed, rq, tx, last, call, brandDocs >>

\* Line 329: product.save({ session })
CreateSave(r) ==
  /\ pc[r] = "c_save"
  /\ IF SlugIndexRefuses(r, rq[r].slug)
       THEN Abort(r, "create", "store")
       ELSE /\ tx' = [tx EXCEPT ![r].prod = << NewProduct(rq[r]) >>]
            /\ pc' = [pc EXCEPT ![r] = "c_inccat"]
            /\ UNCHANGED << products, catCount, colCount, destroyed, rq, last, call, brandDocs >>

\* Lines 332-336
CreateIncCategory(r) ==
  /\ pc[r] = "c_inccat"
  /\ tx' = [tx EXCEPT ![r] = IncCategory(@, rq[r].category, 1)]
  /\ pc' = [pc EXCEPT ![r] = "c_inccol"]
  /\ UNCHANGED << products, catCount, colCount, destroyed, rq, last, call, brandDocs >>

\* Lines 339-346
CreateIncColors(r) ==
  /\ pc[r] = "c_inccol"
  /\ LET colorIds == DistinctColors(rq[r].variants)
     IN  tx' = [tx EXCEPT ![r] = IF colorIds # {} THEN IncColors(@, colorIds, 1) ELSE @]
  /\ pc' = [pc EXCEPT ![r] = "c_commit"]
  /\ UNCHANGED << products, catCount, colCount, destroyed, rq, last, call, brandDocs >>

\* Line 349
CreateCommit(r) ==
  /\ pc[r] = "c_commit"
  /\ CommitTransaction(r)
  /\ tx' = [tx EXCEPT ![r] = EmptyTx]
  /\ pc' = [pc EXCEPT ![r] = "c_fetch"]
  /\ UNCHANGED << destroyed, rq, last, call, brandDocs >>

\* Lines 352-362: the re-fetch and the 201 response
CreateFetch(r) ==
  /\ pc[r] = "c_fetch"
  /\ Respond(r, "create", 201, "none", rq[r].zero)
  /\ UNCHANGED << products, catCount, colCount, destroyed, call, brandDocs >>

\* Lines 363-375 with the re-fetch failing: abortTransaction() after the
\* commit throws, the outer catch answers 500
CreateFetchFails(r) ==
  /\ pc[r] = "c_fetch"
  /\ Respond(r, "create", 500, "store", rq[r].zero)
  /\ UNCHANGED << products, catCount, colCount, destroyed, call, brandDocs >>

\* ----------------------------------------------------------- updateProduct
\* parseJsonField(variants, 'variants') of updateProduct, or product.variants
\* (the populated documents) when the body has no variants.  An entry is
\* [vid, color, form]: vid 0 when it has no _id.
IncomingVariants(field, product) ==
  IF field.kind = "undefined"
    THEN [i \in DOMAIN product.variants |->
            [vid |-> i, color |-> product.variants[i].color, form |-> "doc"]]
    ELSE LET items == IF field.kind = "array" THEN field.items
                      ELSE IF field.json.kind = "array" THEN field.json.items
                      ELSE << field.json.item >>
         IN  [i \in DOMAIN items |->
                [vid |-> items[i].vid, color |-> items[i].color, form |-> "id"]]

\* Lines 431-452: the check of an array body; the entry with neither _id nor color
HasNeither(field) ==
  /\ field.kind = "array"
  /\ \E i \in DOMAIN field.items :
       field.items[i].vid = 0 /\ field.items[i].color = NoColor

\* the variants of the body, array or JSON text, have an entry with neither
\* _id nor color
LacksIdAndColor(field) ==
  LET items == IF field.kind = "undefined" THEN << >>
               ELSE IF field.kind = "array" THEN field.items
               ELSE IF field.json.kind = "array" THEN field.json.items
               ELSE << field.json.item >>
  IN  \E i \in DOMAIN items : items[i].vid = 0 /\ items[i].color = NoColor

\* Lines 576-608: existing variants patched by _id, new ones appended
RECURSIVE MergeVariants(_, _, _)
MergeVariants(updated, added, incoming) ==
  IF incoming = << >> THEN updated \o added
  ELSE LET e == Head(incoming)
       IN  IF e.vid # 0
             THEN IF e.vid \in DOMAIN updated
                    THEN MergeVariants(
                           [updated EXCEPT ![e.vid] =
                              IF e.color # NoColor
                                THEN [@ EXCEPT !.color = e.color, !.form = e.form]
                                ELSE @],
                           added, Tail(incoming))
                    ELSE MergeVariants(updated, added, Tail(incoming))
           ELSE IF e.color # NoColor
             THEN MergeVariants(updated,
                                Append(added, [color |-> e.color, form |-> "id",
                                               img |-> FALSE]),
                                Tail(incoming))
           ELSE MergeVariants(updated, added, Tail(incoming))

\* Lines 387-608: the product is read, the variants are checked and merged
StartUpdate(r, in) ==
  /\ pc[r] = "idle"
  /\ last = NoResponse
  /\ IF ~in.idOk THEN Reject("update", 400, FALSE)
     ELSE IF ~Exists(in.id) THEN Reject("update", 404, FALSE)
     ELSE LET product == products[in.id]
              incoming == IncomingVariants(in.variants, product)
              colorIds == ColorIdList(incoming)
              merged == MergeVariants([i \in DOMAIN product.variants |-> Populated(product.variants[i])],
                                     << >>, incoming)
          IN  IF HasNeither(in.variants) THEN Reject("update", 400, FALSE)
              ELSE IF FoundColors(colorIds) # Len(colorIds)
                THEN Reject("update", 400, FALSE)
              ELSE /\ pc' = [pc EXCEPT ![r] = "u_slug"]
                   /\ rq' = [rq EXCEPT ![r] =
                               [op |-> "update", pid |-> in.id, name |-> in.name,
                                slug |-> product.slug, category |-> in.category,
                                brand |-> in.brand, variants |-> merged,
                                files |-> in.files, old |-> << product >>,
                                zero |-> FALSE,
                                neither |-> LacksIdAndColor(in.variants)]]
                   /\ UNCHANGED << products, catCount, colCount, destroyed, tx, last, call, brandDocs >>

\* product.variants.map((v) => v.color?._id?.toString()).filter(Boolean)
OldColorIds(q) == DistinctColors(q.old[1].variants)

\* updatedVariants.map((v) => v.color?.toString()).filter(Boolean)
ColorToString(v) == IF v.form = "id" THEN v.color ELSE ObjString
NewColorIds(q) ==
  { ColorToString(q.variants[i]) : i \in {j \in DOMAIN q.variants : q.variants[j].color # NoColor} }

\* Every color of the updated variants is incremented, the kept ones too.
ColorsToIncrementAll(q) == NewColorIds(q)

\* Line 677
ColorsToIncrement(q) == NewColorIds(q) \ OldColorIds(q)

\* No color is ever decremented.
ColorsToDecrementNone(q) == {}

\* Line 679
ColorsToDecrement(q) == OldColorIds(q) \ NewColorIds(q)

\* The category is written without its counters being moved.
CategoryChangeUnnoticed(q) == FALSE

\* Line 703
CategoryChanged(q) == q.category # Absent /\ q.category # q.old[1].category

\* the variants of the stored product whose images an upload replaces
ReplacedImages(q) ==
  { i \in q.files : i \in DOMAIN q.old[1].variants /\ q.variants[i].img }

\* the call that follows the category updates, the color increments
AfterIncColors(q) == IF ColorsToDecrement(q) # {} THEN "u_deccol" ELSE "u_save"
AfterCategory(q) == IF ColorsToIncrement(q) # {} THEN "u_inccol" ELSE AfterIncColors(q)
AfterBegin(q) == IF CategoryChanged(q) THEN "u_deccat" ELSE AfterCategory(q)

\* Lines 610-700: the uploads (the replaced images are destroyed in the asset
\* store first), the slug lookup, the session, updateData
UpdateSlug(r) ==
  /\ pc[r] = "u_slug"
  /\ UNCHANGED << call, brandDocs >>
  /\ LET q == rq[r]
         old == q.old[1]
         variants == IF q.files = {} THEN q.variants
                     ELSE [i \in DOMAIN q.variants |->
                             IF i \in q.files THEN [q.variants[i] EXCEPT !.img = TRUE]
                             ELSE q.variants[i]]
         renamed == q.name # NoName /\ q.name # old.name
         slug == IF renamed THEN Slugify(q.name) ELSE old.slug
         q2 == [q EXCEPT !.variants = variants, !.slug = slug]
     IN  /\ \E gone \in SUBSET ReplacedImages(q) :  \* a failed destroy is only logged
              destroyed' = destroyed \cup { << q.pid, i >> : i \in gone }
         /\ IF q.files # {} /\ ~HasImages(variants)
              THEN /\ Respond(r, "update", 400, "client", FALSE)
                   /\ UNCHANGED << products, catCount, colCount >>
            ELSE IF renamed /\ SlugTaken(slug, {q.pid})
              THEN /\ Respond(r, "update", 409, "client", FALSE)
                   /\ UNCHANGED << products, catCount, colCount >>
            ELSE IF \/ old.category \notin Categories
                    \/ q.brand = Absent /\ old.brand \notin DOMAIN brandDocs
              THEN \* product.category._id, product.brand._id of a null reference
                   /\ Respond(r, "update", 500, "code", FALSE)
                   /\ UNCHANGED << products, catCount, colCount >>
            ELSE /\ pc' = [pc EXCEPT ![r] = AfterBegin(q2)]
                 /\ rq' = [rq EXCEPT ![r] = q2]
                 /\ UNCHANGED << products, catCount, colCount, tx, last >>

\* Lines 704-708
UpdateDecCategory(r) ==
  /\ pc[r] = "u_deccat"
  /\ tx' = [tx EXCEPT ![r] = IncCategory(@, rq[r].old[1].category, -1)]
  /\ pc' = [pc EXCEPT ![r] = "u_inccat"]
  /\ UNCHANGED << products, catCount, colCount, destroyed, rq, last, call, brandDocs >>

\* Lines 709-713
UpdateIncCategory(r) ==
  /\ pc[r] = "u_inccat"
  /\ tx' = [tx EXCEPT ![r] = IncCategory(@, rq[r].category, 1)]
  /\ pc' = [pc EXCEPT ![r] = AfterCategory(rq[r])]
  /\ UNCHANGED << products, catCount, colCount, destroyed, rq, last, call, brandDocs >>

\* Lines 717-723: an id that is no ObjectId string makes the query throw
UpdateIncColors(r) ==
  /\ pc[r] = "u_inccol"
  /\ IF ObjString \in ColorsToIncrement(rq[r])
       THEN Abort(r, "update", "code")
       ELSE /\ tx' = [tx EXCEPT ![r] = IncColors(@, ColorsToIncrement(rq[r]), 1)]
            /\ pc' = [pc EXCEPT ![r] = AfterIncColors(rq[r])]
            /\ UNCHANGED << products, catCount, colCount, destroyed, rq, last, call, brandDocs >>

\* Lines 726-732
UpdateDecColors(r) ==
  /\ pc[r] = "u_deccol"
  /\ tx' = [tx EXCEPT ![r] = IncColors(@, ColorsToDecrement(rq[r]), -1)]
  /\ pc' = [pc EXCEPT ![r] = "u_save"]
  /\ UNCHANGED << products, catCount, colCount, destroyed, rq, last, call, brandDocs >>

\* Lines 683-700: updateData
UpdateData(q) ==
  [name |-> IF q.name # NoName THEN q.name ELSE q.old[1].name,
   slug |-> q.slug,
   category |-> IF q.category # Absent THEN q.category ELSE q.old[1].category,
   brand |-> IF q.brand # Absent THEN q.brand ELSE q.old[1].brand,
   variants |-> [i \in DOMAIN q.variants |-> StoredVariant(q.variants[i])]]

\* Lines 735-742: Product.findByIdAndUpdate(id, {$set: updateData}, {session})
UpdateSave(r) ==
  /\ pc[r] = "u_save"
  /\ IF SlugIndexRefuses(r, rq[r].slug)
       THEN Abort(r, "update", "store")
       ELSE /\ tx' = [tx EXCEPT ![r].prod = << UpdateData(rq[r]) >>]
            /\ pc' = [pc EXCEPT ![r] = "u_commit"]
            /\ UNCHANGED << products, catCount, colCount, destroyed, rq, last, call, brandDocs >>

\* Lines 745-780: the commit and the 200 response; the replaced image
\* records now name the new uploads
UpdateCommit(r) ==
  /\ pc[r] = "u_commit"
  /\ UNCHANGED << call, brandDocs >>
  /\ CommitTransaction(r)
  /\ destroyed' = destroyed \ { << rq[r].pid, i >> : i \in rq[r].files }
  /\ Respond(r, "update", 200, "none", FALSE)

\* ----------------------------------------------------------- deleteProduct
\* the image records of a stored product
StoredImages(id) ==
  { << id, i >> : i \in { j \in DOMAIN products[id].variants : products[id].variants[j].img } }

\* Lines 806-828: the product is read, the session is opened and, inside the
\* try, the files of its images are removed: a file that does not exist is
\* skipped, fs.unlinkSync of one that exists removes it or throws.  A throw
\* goes to the catch of lines 858-860.
StartDelete(r, id) ==
  /\ pc[r] = "idle"
  /\ last = NoResponse
  /\ IF ~Exists(id) THEN Reject("delete", 404, FALSE)
     ELSE \E gone \in SUBSET StoredImages(id) :
          \E thrown \in IF gone # StoredImages(id) THEN BOOLEAN ELSE {FALSE} :
            /\ destroyed' = destroyed \cup gone
            /\ IF thrown
                 THEN /\ last' = Response("delete", 500, "asset", FALSE)
                      /\ UNCHANGED << products, catCount, colCount, pc, rq, tx, call, brandDocs >>
                 ELSE /\ pc' = [pc EXCEPT ![r] = "d_deccat"]
                      /\ rq' = [rq EXCEPT ![r] =
                                  [IdleRq EXCEPT !.op = "delete", !.pid = id,
                                                 !.old = << products[id] >>]]
                      /\ UNCHANGED << products, catCount, colCount, tx, last, call, brandDocs >>

\* Lines 831-835
DeleteDecCategory(r) ==
  /\ pc[r] = "d_deccat"
  /\ tx' = [tx EXCEPT ![r] = IncCategory(@, rq[r].old[1].category, -1)]
  /\ pc' = [pc EXCEPT ![r] =
              IF OldColorIds(rq[r]) # {} THEN "d_deccol" ELSE "d_image"]
  /\ UNCHANGED << products, catCount, colCount, destroyed, rq, last, call, brandDocs >>

\* Lines 838-845
DeleteDecColors(r) ==
  /\ pc[r] = "d_deccol"
  /\ tx' = [tx EXCEPT ![r] = IncColors(@, OldColorIds(rq[r]), -1)]
  /\ pc' = [pc EXCEPT ![r] = "d_image"]
  /\ UNCHANGED << products, catCount, colCount, destroyed, rq, last, call, brandDocs >>

\* Line 848: the statement `Image` reads an identifier nothing declares; the
\* ReferenceError goes to the catch of lines 858-860, which aborts and rethrows.
\* Product.deleteOne and commitTransaction (lines 849-852) are never reached.
DeleteImageStatement(r) ==
  /\ pc[r] = "d_image"
  /\ Abort(r, "delete", "code")

\* ------------------------------------------------------------ store faults
\* Any call made under a session may throw (a write conflict, a lost
\* connection); the handler's catch aborts the transaction.
SessionPcs ==
  { "c_save", "c_inccat", "c_inccol", "c_commit",
    "u_deccat", "u_inccat", "u_inccol", "u_deccol", "u_save", "u_commit",
    "d_deccat", "d_deccol" }

StoreFails(r) ==
  /\ pc[r] \in SessionPcs
  /\ Abort(r, rq[r].op, "store")

\* ------------------------------------------------------------ the requests
\* A scope names the values the requests of a specification are drawn from:
\* the names, renames, categories, moves, brands and prices (the absent value
\* among them where the scope has requests without the field), the colors and
\* the _ids of the variant entries, the encodings of the variants field, the
\* uploads and the longest variants list.
VariantFields(items, n, forms) ==
  LET lists == SeqsUpTo(items, n)
  IN  (IF "undefined" \in forms THEN {Undefined} ELSE {})
        \cup (IF "array" \in forms THEN {ArrayOf(s) : s \in lists} ELSE {})
        \cup (IF "json" \in forms THEN {JsonArray(s) : s \in lists} ELSE {})
        \cup (IF "object" \in forms THEN {JsonObject(i) : i \in items} ELSE {})

AllForms == {"undefined", "array", "json", "object"}

CreateInputs(sc) ==
  [name : sc.names, category : sc.categories, brand : sc.brands, price : sc.prices,
   variants : VariantFields([color : sc.colors], sc.len, sc.forms), files : sc.files]

UpdateInputs(sc) ==
  [idOk : {TRUE}, id : ProductIds, name : sc.renames, category : sc.moves,
   brand : sc.rebrands,
   variants : VariantFields([vid : sc.vids, color : sc.recolors], sc.len, sc.forms),
   files : sc.files]
  \cup
  [idOk : {FALSE}, id : {1}, name : {NoName}, category : {Absent}, brand : {Absent},
   variants : {Undefined}, files : {{}}]

\* the steps a request in flight takes
CreateSteps(r) ==
  \/ CreateSlug(r)
  \/ CreateSave(r)
  \/ CreateIncCategory(r)
  \/ CreateIncColors(r)
  \/ CreateCommit(r)
  \/ CreateFetch(r)
  \/ CreateFetchFails(r)

UpdateSteps(r) ==
  \/ UpdateSlug(r)
  \/ UpdateDecCategory(r)
  \/ UpdateIncCategory(r)
  \/ UpdateIncColors(r)
  \/ UpdateDecColors(r)
  \/ UpdateSave(r)
  \/ UpdateCommit(r)

DeleteSteps(r) ==
  \/ DeleteDecCategory(r)
  \/ DeleteDecColors(r)
  \/ DeleteImageStatement(r)

Step(r) == CreateSteps(r) \/ UpdateSteps(r) \/ DeleteSteps(r) \/ StoreFails(r)

\* The response is delivered; the client sends its next request after it.
Deliver ==
  /\ last # NoResponse
  /\ last' = NoResponse
  /\ UNCHANGED << products, catCount, colCount, destroyed, pc, rq, tx, call, brandDocs >>

CanStart(r) == pc[r] = "idle" /\ last = NoResponse

Requests(r, creates, updates) ==
  \/ CanStart(r) /\ FreeIds # {} /\ \E in \in creates : StartCreate(r, in)
  \/ CanStart(r) /\ \E in \in updates : StartUpdate(r, in)
  \/ CanStart(r) /\ \E id \in ProductIds : StartDelete(r, id)
  \/ Deliver

\* ------------------------------------------------------------------ brands
\* createBrand: the name lookup, new Brand({ name }).save() with its
\* pre-save hook; the unique indexes on name and slug refuse a duplicate
CreateBrand(name) ==
  /\ last = NoResponse
  /\ BrandIds \ DOMAIN brandDocs # {}
  /\ LET id == CHOOSE b \in BrandIds \ DOMAIN brandDocs : TRUE
         doc == PreSave([name |-> name, slug |-> << >>])
     IN  IF \E b \in DOMAIN brandDocs : brandDocs[b].name = name
           THEN /\ last' = Response("createBrand", 409, "client", FALSE)
                /\ UNCHANGED brandDocs
         ELSE IF \E b \in DOMAIN brandDocs : brandDocs[b].slug = doc.slug
           THEN /\ last' = Response("createBrand", 500, "store", FALSE)
                /\ UNCHANGED brandDocs
         ELSE /\ last' = Response("createBrand", 201, "none", FALSE)
              /\ brandDocs' = [b \in DOMAIN brandDocs \cup {id} |->
                                 IF b = id THEN doc ELSE brandDocs[b]]
  /\ UNCHANGED << products, catCount, colCount, destroyed, pc, rq, tx, call >>

\* updateBrand: the brand is read, the name lookup, brand.name = name,
\* brand.save() with its pre-save hook
UpdateBrand(id, name) ==
  /\ last = NoResponse
  /\ IF id \notin DOMAIN brandDocs
       THEN /\ last' = Response("updateBrand", 404, "client", FALSE)
            /\ UNCHANGED brandDocs
     ELSE IF \E b \in DOMAIN brandDocs \ {id} : brandDocs[b].name = name
       THEN /\ last' = Response("updateBrand", 409, "client", FALSE)
            /\ UNCHANGED brandDocs
     ELSE LET doc == PreSave([brandDocs[id] EXCEPT !.name = name])
          IN  IF /\ doc.slug # brandDocs[id].slug
                 /\ \E b \in DOMAIN brandDocs \ {id} : brandDocs[b].slug = doc.slug
                THEN /\ last' = Response("updateBrand", 500, "store", FALSE)
                     /\ UNCHANGED brandDocs
                ELSE /\ last' = Response("updateBrand", 200, "none", FALSE)
                     /\ brandDocs' = [brandDocs EXCEPT ![id] = doc]
  /\ UNCHANGED << products, catCount, colCount, destroyed, pc, rq, tx, call >>

\* deleteBrand up to its delete: the brand is read, a product of the brand
\* is looked for
DeleteBrandCheck(id) ==
  /\ last = NoResponse
  /\ call.fn = "none"
  /\ IF id \notin DOMAIN brandDocs
       THEN /\ last' = Response("deleteBrand", 404, "client", FALSE)
            /\ UNCHANGED call
     ELSE IF \E p \in DOMAIN products : products[p].brand = id
       THEN /\ last' = Response("deleteBrand", 400, "client", FALSE)
            /\ UNCHANGED call
     ELSE /\ call' = [fn |-> "deleteBrand", id |-> id]
          /\ UNCHANGED last
  /\ UNCHANGED << products, catCount, colCount, destroyed, pc, rq, tx, brandDocs >>

\* await Brand.deleteOne({ _id: req.params.id }) and the response
DeleteBrandDelete ==
  /\ call.fn = "deleteBrand"
  /\ brandDocs' = [b \in DOMAIN brandDocs \ {call.id} |-> brandDocs[b]]
  /\ call' = NoCall
  /\ last' = Response("deleteBrand", 200, "none", FALSE)
  /\ UNCHANGED << products, catCount, colCount, destroyed, pc, rq, tx >>

\* ------------------------------------------------------ product listings
\* getProducts (product.js), getCustomerProducts and filterCustomerProducts
\* (customerproduct.js): the query parameters are checked, a filter is built,
\* Product.countDocuments and Product.find are awaited with it.
\*
\* A query parameter that holds a number is absent, the text of the integer
\* n, or a text that is no number; one that holds a list is absent, a string
\* (its parts are what the commas separate) or an array of strings.
NoParam == [k |-> "absent"]
NumText(n) == [k |-> "num", n |-> n]
NotANumber == [k |-> "nan"]
ListString(parts) == [k |-> "string", parts |-> parts]
ListArray(items) == [k |-> "array", items |-> items]

\* the catalog, newest first: what the listings read
Catalog ==
  << [visible |-> TRUE, soldOut |-> FALSE, category |-> "cA", brand |-> "b1",
      colors |-> {"X"}, base |-> 10, prices |-> {10}, qty |-> << 5, 0 >>],
     [visible |-> TRUE, soldOut |-> FALSE, category |-> "cA", brand |-> "b1",
      colors |-> {"Y"}, base |-> 50, prices |-> {50}, qty |-> << 0 >>],
     [visible |-> TRUE, soldOut |-> TRUE, category |-> "cB", brand |-> "b1",
      colors |-> {"X", "Y"}, base |-> 10, prices |-> {10, 50}, qty |-> << 3 >>],
     [visible |-> FALSE, soldOut |-> FALSE, category |-> "cA", brand |-> "b1",
      colors |-> {"X"}, base |-> 10, prices |-> {10}, qty |-> << 1 >>],
     [visible |-> TRUE, soldOut |-> FALSE, category |-> "cB", brand |-> "b1",
      colors |-> {"Y"}, base |-> 50, prices |-> {50}, qty |-> << >>] >>

\* Category slugs of active categories
CategorySlugs == [shirts |-> "cA"]

\* mongoose.isValidObjectId on a string
IsValidObjectId(e) ==
  e \in Categories \cup Brands \cup Colors \cup {GhostCategory, GhostBrand, GhostColor}

\* String.prototype.trim on the elements the requests carry
Trim(e) == IF e = " " THEN "" ELSE e

\* a JavaScript value used as a condition: the empty string is falsy, an
\* array never is
Truthy(list) ==
  \/ list.k = "array"
  \/ list.k = "string" /\ list.parts # << "" >>

\* parseInt(v, 10) || d
ParseIntOr(v, d) ==
  IF v.k = "num" /\ v.n # 0 THEN v.n ELSE d

\* a filter over the catalog: the values a field may have, << >> where the
\* filter has no condition on it
NoQuery ==
  [visible |-> BOOLEAN, soldOut |-> BOOLEAN, category |-> << >>, colors |-> << >>,
   brands |-> << >>, field |-> "none", gte |-> << >>, lte |-> << >>, never |-> FALSE,
   qty |-> "any"]

\* a document matches a filter (an array field matches a condition when one
\* of its elements does)
Matches(d, q) ==
  /\ d.visible \in q.visible
  /\ d.soldOut \in q.soldOut
  /\ q.category = << >> \/ d.category = q.category[1]
  /\ q.colors = << >> \/ d.colors \cap q.colors[1] # {}
  /\ q.brands = << >> \/ d.brand \in q.brands[1]
  /\ ~q.never
  /\ LET ps == IF q.field = "base_price" THEN {d.base} ELSE d.prices
     IN  /\ q.gte = << >> \/ \E x \in ps : x >= q.gte[1]
         /\ q.lte = << >> \/ \E x \in ps : x <= q.lte[1]
  /\ CASE q.qty = "gt0" -> \E i \in DOMAIN d.qty : d.qty[i] > 0
       [] q.qty = "lte0" -> \E i \in DOMAIN d.qty : d.qty[i] <= 0
       [] OTHER -> TRUE

\* the positions of the catalog's documents that match, in the sort order
Matching(q) == SelectSeq([i \in DOMAIN Catalog |-> i], LAMBDA i : Matches(Catalog[i], q))

\* the category parameter: an id is taken as it is, a slug is looked up
\* (Category.findOne); << >> when the lookup finds nothing
CategoryOf(c) ==
  IF IsValidObjectId(c) THEN << c >>
  ELSE IF c \in DOMAIN CategorySlugs THEN << CategorySlugs[c] >>
  ELSE << >>

\* parseFilterArray of filterCustomerProducts
ParseFilterArray(list) ==
  IF list.k = "absent" \/ ~Truthy(list) THEN << >>
  ELSE IF list.k = "array"
    THEN LET kept == SelectSeq(list.items, LAMBDA v : v # "" /\ Trim(v) # "")
         IN  [i \in DOMAIN kept |-> Trim(kept[i])]
    ELSE SelectSeq([i \in DOMAIN list.parts |-> Trim(list.parts[i])], LAMBDA v : v # "")

\* Array.isArray(x) ? x : [x] of getCustomerProducts, and whether every
\* element is an id: a string is one element, and no id when a comma is in it
EveryIsId(list) ==
  IF list.k = "array" THEN \A i \in DOMAIN list.items : IsValidObjectId(list.items[i])
  ELSE Len(list.parts) = 1 /\ IsValidObjectId(list.parts[1])

IdsOf(list) ==
  IF list.k = "array" THEN { list.items[i] : i \in DOMAIN list.items }
  ELSE { list.parts[1] }

\* v && !isNaN(parseFloat(v)) ? parseFloat(v) : null
PriceOf(v) == IF v.k = "num" THEN << v.n >> ELSE << >>

\* a request of a listing, before its handler has run
NewCall(fn, req) ==
  [fn |-> fn, req |-> req, pc |-> "start", query |-> NoQuery, counted |-> NoQuery,
   fetched |-> NoQuery, skip |-> 0, limit |-> 0, status |-> 0, cause |-> "none",
   total |-> 0, items |-> << >>, ran |-> FALSE, related |-> << >>,
   views |-> [i \in DOMAIN Catalog |-> 0]]

\* res.status(...).json(...) before any product is read
Refuse(status, cause) ==
  [call EXCEPT !.pc = "done", !.status = status, !.cause = cause]

\* the filter and the window are ready: Product.countDocuments is next
Prepared(q, pageNum, limitNum) ==
  [call EXCEPT !.pc = "count", !.query = q, !.skip = (pageNum - 1) * limitNum,
               !.limit = limitNum]

ListingIdle ==
  UNCHANGED << products, catCount, colCount, destroyed, pc, rq, tx, last, brandDocs >>

\* getProducts up to its try block
GetProducts ==
  /\ call.fn = "getProducts"
  /\ call.pc = "start"
  /\ LET req == call.req
         limitNum == ParseIntOr(req.limit, 10)
         category == IF req.category = "" THEN << >> ELSE CategoryOf(req.category)
         priced == req.minPrice.k # "absent" \/ req.maxPrice.k # "absent"
         q == [NoQuery EXCEPT
                 !.category = category,
                 !.field = IF priced THEN "base_price" ELSE "none",
                 !.gte = PriceOf(req.minPrice),
                 !.lte = PriceOf(req.maxPrice),
                 !.never = req.minPrice.k = "nan" \/ req.maxPrice.k = "nan"]
     IN  call' = IF req.category # "" /\ category = << >> THEN Refuse(400, "category")
                 ELSE IF req.page.k = "nan"
                   THEN [Prepared(q, 0, limitNum) EXCEPT !.skip = -1]
                 ELSE Prepared(q, IF req.page.k = "num" THEN req.page.n ELSE 1, limitNum)
  /\ ListingIdle

\* getCustomerProducts up to its try block
GetCustomerProducts ==
  /\ call.fn = "getCustomerProducts"
  /\ call.pc = "start"
  /\ LET req == call.req
         pageNum == ParseIntOr(req.page, 1)
         limitNum == ParseIntOr(req.limit, 12)
         category == IF req.category = "" THEN << >> ELSE CategoryOf(req.category)
         priced == req.minPrice.k # "absent" \/ req.maxPrice.k # "absent"
         q == [NoQuery EXCEPT
                 !.visible = {TRUE},
                 !.soldOut = {FALSE},
                 !.category = category,
                 !.field = IF priced THEN "base_price" ELSE "none",
                 !.gte = PriceOf(req.minPrice),
                 !.lte = PriceOf(req.maxPrice),
                 !.never = priced /\ req.minPrice.k # "num" /\ req.maxPrice.k # "num",
                 !.colors = IF Truthy(req.colors) /\ EveryIsId(req.colors)
                              THEN << IdsOf(req.colors) >> ELSE << >>,
                 !.brands = IF Truthy(req.brands) /\ EveryIsId(req.brands)
                              THEN << IdsOf(req.brands) >> ELSE << >>]
     IN  call' = IF req.category # "" /\ category = << >> THEN Refuse(400, "category")
                 ELSE IF Truthy(req.colors) /\ ~EveryIsId(req.colors) THEN Refuse(400, "colors")
                 ELSE IF Truthy(req.brands) /\ ~EveryIsId(req.brands) THEN Refuse(400, "brands")
                 ELSE Prepared(q, pageNum, limitNum)
  /\ ListingIdle

\* a price check that lets a reversed range through
PriceRefusalOfSignsOnly(min, max) ==
  IF min # << >> /\ min[1] < 0 THEN "minPrice"
  ELSE IF max # << >> /\ max[1] < 0 THEN "maxPrice"
  ELSE "none"

\* the three refusals of the price filter of filterCustomerProducts, "none"
\* when the bounds pass
PriceRefusal(min, max) ==
  IF min # << >> /\ min[1] < 0 THEN "minPrice"
  ELSE IF max # << >> /\ max[1] < 0 THEN "maxPrice"
  ELSE IF min # << >> /\ max # << >> /\ min[1] > max[1] THEN "priceRange"
  ELSE "none"

\* filterCustomerProducts up to its try block
FilterCustomerProducts ==
  /\ call.fn = "filterCustomerProducts"
  /\ call.pc = "start"
  /\ LET req == call.req
         pageNum == ParseIntOr(req.page, 1)
         limitNum == ParseIntOr(req.limit, 12)
         category == IF req.category = "" THEN << >> ELSE CategoryOf(req.category)
         colorIds == ParseFilterArray(req.colors)
         brandIds == ParseFilterArray(req.brands)
         colorsOk == Len(colorIds) > 0 /\ \A i \in DOMAIN colorIds : IsValidObjectId(colorIds[i])
         brandsOk == Len(brandIds) > 0 /\ \A i \in DOMAIN brandIds : IsValidObjectId(brandIds[i])
         priced == req.minPrice.k # "absent" \/ req.maxPrice.k # "absent"
         min == PriceOf(req.minPrice)
         max == PriceOf(req.maxPrice)
         q == [NoQuery EXCEPT
                 !.visible = {TRUE},
                 !.category = category,
                 !.colors = IF Truthy(req.colors) THEN << { colorIds[i] : i \in DOMAIN colorIds } >>
                            ELSE << >>,
                 !.brands = IF Truthy(req.brands) THEN << { brandIds[i] : i \in DOMAIN brandIds } >>
                            ELSE << >>,
                 !.field = IF priced THEN "variants.price" ELSE "none",
                 !.gte = min,
                 !.lte = max,
                 !.qty = IF req.available = "absent" THEN "any"
                         ELSE IF req.available = "true" THEN "gt0" ELSE "lte0",
                 !.soldOut = IF req.soldOut = "absent" THEN BOOLEAN
                             ELSE {req.soldOut = "true"}]
     IN  call' = IF pageNum < 1 \/ limitNum < 1 THEN Refuse(400, "pagination")
                 ELSE IF req.category # "" /\ category = << >> THEN Refuse(400, "category")
                 ELSE IF Truthy(req.colors) /\ ~colorsOk THEN Refuse(400, "colors")
                 ELSE IF Truthy(req.brands) /\ ~brandsOk THEN Refuse(400, "brands")
                 ELSE IF priced /\ PriceRefusal(min, max) # "none"
                   THEN Refuse(400, PriceRefusal(min, max))
                 ELSE Prepared(q, pageNum, limitNum)
  /\ ListingIdle

\* await Product.countDocuments(query)
CountDocuments ==
  /\ call.fn # "none"
  /\ call.pc = "count"
  /\ call' = [call EXCEPT !.pc = "find", !.counted = call.query,
                          !.total = Len(Matching(call.query)), !.ran = TRUE]
  /\ ListingIdle

\* a find that leaves the flags of the filter out
FindWithoutFlags(c) == [c.query EXCEPT !.visible = BOOLEAN, !.soldOut = BOOLEAN]

\* the filter Product.find is given: the one Product.countDocuments had
FindFilter(c) == c.query

\* .skip(skip).limit(limitNum) on the sorted matches; a negative limit is
\* taken by its size
Window(ms, skip, limit) ==
  LET n == IF limit < 0 THEN -limit ELSE limit
      hi == IF skip + n < Len(ms) THEN skip + n ELSE Len(ms)
  IN  SubSeq(ms, skip + 1, hi)

\* filterCustomerProducts reads related products when a category is given
\* (no request of the model has collections or tags)
HasRelated(c) == c.fn = "filterCustomerProducts" /\ c.query.category # << >>

\* await Product.find(query).sort(sort).skip(skip).limit(limitNum), then the
\* response, or the related products before it; a skip that is negative or
\* no number makes the find fail
Find ==
  /\ call.fn # "none"
  /\ call.pc = "find"
  /\ call' = IF call.skip < 0
               THEN [call EXCEPT !.pc = "done", !.status = 500, !.cause = "skip",
                                 !.fetched = FindFilter(call)]
               ELSE [call EXCEPT !.pc = IF HasRelated(call) THEN "related" ELSE "done",
                                 !.status = IF HasRelated(call) THEN 0 ELSE 200,
                                 !.fetched = FindFilter(call),
                                 !.items = Window(Matching(FindFilter(call)), call.skip, call.limit)]
  /\ ListingIdle

\* a filter with no condition on isVisible
AnyVisibility(q) == q

\* isVisible: true in a filter of a customer endpoint
VisibleOnly(q) == [q EXCEPT !.visible = {TRUE}]

\* the related products of filterCustomerProducts: visible, not on the page,
\* of the category, within the price filter; the four newest; then the
\* response
FindRelated ==
  /\ call.fn = "filterCustomerProducts"
  /\ call.pc = "related"
  /\ LET q == VisibleOnly([NoQuery EXCEPT !.category = call.query.category,
                                          !.field = call.query.field,
                                          !.gte = call.query.gte,
                                          !.lte = call.query.lte])
         others == SelectSeq(Matching(q),
                             LAMBDA i : \A j \in DOMAIN call.items : call.items[j] # i)
     IN  call' = [call EXCEPT !.pc = "done", !.status = 200,
                              !.related = Window(others, 0, 4)]
  /\ ListingIdle

\* the id parameter of getCustomerProductById: the position of a product in
\* the catalog, the id of no product, or a text that is no ObjectId
NotAnId == 0
NoSuchProduct == Len(Catalog) + 1

\* getCustomerProductById up to its update: the id is checked, the product
\* is read with isVisible: true and isSoldOut: false
GetCustomerProductById ==
  /\ call.fn = "getCustomerProductById"
  /\ call.pc = "start"
  /\ LET id == call.req.id
         q == VisibleOnly([NoQuery EXCEPT !.soldOut = {FALSE}])
         found == SelectSeq(Matching(q), LAMBDA i : i = id)
     IN  call' = IF id = NotAnId THEN Refuse(400, "id")
                 ELSE IF found = << >>
                   THEN [Refuse(404, "missing") EXCEPT !.fetched = q, !.ran = TRUE]
                 ELSE [call EXCEPT !.pc = "inc", !.fetched = q, !.ran = TRUE,
                                   !.items = found]
  /\ ListingIdle

\* await Product.findByIdAndUpdate(id, { $inc: { viewCount: 1 } }) and the
\* response with the product read
IncViewCount ==
  /\ call.fn = "getCustomerProductById"
  /\ call.pc = "inc"
  /\ call' = [call EXCEPT !.pc = "done", !.status = 200,
                          !.views[call.items[1]] = @ + 1]
  /\ ListingIdle

\* the update throws: the error handler answers 500, no product is sent
ViewCountFails ==
  /\ call.fn = "getCustomerProductById"
  /\ call.pc = "inc"
  /\ call' = [call EXCEPT !.pc = "done", !.status = 500, !.cause = "store",
                          !.items = << >>]
  /\ ListingIdle

\* the tags of the catalog's products, and their discounts (all of them are
\* featured and active)
CatalogTags == << {"new"}, {"sale"}, {"new"}, {"new", "sale"}, {} >>
CatalogDiscount == << 20, 0, 10, 30, 0 >>

\* tag.trim().toLowerCase() on the tags the requests carry
TagOf(t) == IF t = "NEW" THEN "new" ELSE Trim(t)

\* the tags getNewArrivals looks for: 'new' when the parameter is absent or
\* empty, else its elements trimmed and lower-cased, the empty ones dropped
\* (the hyphenated and the spaced form of these tags are the tags)
TagArray(tags) ==
  IF tags.k = "absent" \/ ~Truthy(tags) THEN {"new"}
  ELSE LET elems == IF tags.k = "array" THEN tags.items ELSE tags.parts
       IN  { TagOf(elems[i]) : i \in DOMAIN elems } \ {""}

\* getNewArrivals: Math.min(parseInt(limit) || 8, 100), the tags, the find
\* with isVisible: true and isSoldOut: false, the response
GetNewArrivals ==
  /\ call.fn = "getNewArrivals"
  /\ call.pc = "start"
  /\ LET n == ParseIntOr(call.req.limit, 8)
         parsedLimit == IF n < 100 THEN n ELSE 100
         tagArray == TagArray(call.req.tags)
         q == VisibleOnly([NoQuery EXCEPT !.soldOut = {FALSE}])
         tagged == SelectSeq(Matching(q), LAMBDA i : CatalogTags[i] \cap tagArray # {})
         found == Window(tagged, 0, parsedLimit)
     IN  call' = IF parsedLimit < 1 THEN Refuse(400, "limit")
                 ELSE IF tagArray = {} THEN Refuse(400, "tags")
                 ELSE IF found = << >>
                   THEN [Refuse(404, "none") EXCEPT !.fetched = q, !.ran = TRUE]
                 ELSE [call EXCEPT !.pc = "done", !.status = 200, !.fetched = q,
                                   !.ran = TRUE, !.items = found]
  /\ ListingIdle

\* .sort({ discount: -1 }): the largest discount first
RECURSIVE ByDiscount(_)
ByDiscount(ids) ==
  IF ids = {} THEN << >>
  ELSE LET top == CHOOSE i \in ids :
                    \A j \in ids : \/ CatalogDiscount[i] > CatalogDiscount[j]
                                   \/ CatalogDiscount[i] = CatalogDiscount[j] /\ i <= j
       IN  << top >> \o ByDiscount(ids \ {top})

\* getDealsOfTheMonth: the find with isFeatured, isActive, isVisible: true,
\* isSoldOut: false and discount > 0, the five largest discounts, the response
GetDealsOfTheMonth ==
  /\ call.fn = "getDealsOfTheMonth"
  /\ call.pc = "start"
  /\ LET q == VisibleOnly([NoQuery EXCEPT !.soldOut = {FALSE}])
         ms == Matching(q)
         deals == { ms[k] : k \in { j \in DOMAIN ms : CatalogDiscount[ms[j]] > 0 } }
         found == Window(ByDiscount(deals), 0, 5)
     IN  call' = IF found = << >>
                   THEN [Refuse(404, "none") EXCEPT !.fetched = q, !.ran = TRUE]
                 ELSE [call EXCEPT !.pc = "done", !.status = 200, !.fetched = q,
                                   !.ran = TRUE, !.items = found]
  /\ ListingIdle

\* ------------------------------------------------------- specifications
\* One request at a time, two products: categories and colors of products
\* created, moved and recolored.
SeqScope ==
  [names |-> {Tee, Cap, NoName}, renames |-> {NoName},
   categories |-> Categories \cup {GhostCategory, Absent},
   moves |-> Categories \cup {Absent},
   brands |-> Brands \cup {GhostBrand, Absent}, rebrands |-> {Absent}, prices |-> {"10", Absent},
   colors |-> {"X", "Y", GhostColor}, vids |-> 0 .. 2,
   recolors |-> {"X", "Y", NoColor}, forms |-> AllForms, files |-> {{}},
   len |-> MaxPayload]

SeqCreates == CreateInputs(SeqScope)
SeqUpdates == UpdateInputs(SeqScope)

NextSeq == Requests(1, SeqCreates, SeqUpdates) \/ Step(1)

SpecSeq == Init /\ [][NextSeq]_vars

\* One request at a time, names of one slug, the three colors: the variants
\* of a product kept, recolored and added.
OneSlugScope ==
  [names |-> {Tee, TeeBang, NoName}, renames |-> {NoName},
   categories |-> {"cA", Absent}, moves |-> {"cB", Absent},
   brands |-> Brands, rebrands |-> {Absent}, prices |-> {"10"},
   colors |-> Colors, vids |-> 0 .. 3, recolors |-> Colors \cup {NoColor},
   forms |-> AllForms, files |-> {{}}, len |-> MaxPayload]

OneSlugCreates == CreateInputs(OneSlugScope)
OneSlugUpdates == UpdateInputs(OneSlugScope)

NextOneSlug == Requests(1, OneSlugCreates, OneSlugUpdates) \/ Step(1)

SpecOneSlug == Init /\ [][NextOneSlug]_vars

\* One request at a time, two products, renames and uploads.
AssetScope ==
  [names |-> {Tee, Cap}, renames |-> {Cap, NoName}, categories |-> {"cA"},
   moves |-> {"cB", Absent}, brands |-> Brands, rebrands |-> {Absent}, prices |-> {"10"},
   colors |-> {"X", "Y"}, vids |-> 0 .. 1, recolors |-> {"X", "Y", NoColor},
   forms |-> AllForms, files |-> {{}, {1}}, len |-> 1]

AssetCreates == CreateInputs(AssetScope)
AssetUpdates == UpdateInputs(AssetScope)

NextAssets == Requests(1, AssetCreates, AssetUpdates) \/ Step(1)

SpecAssets == Init /\ [][NextAssets]_vars

\* Two requests in flight, their awaited calls interleaved: creates of one
\* slug, renames to and from it.
ConcScope ==
  [names |-> {Tee, TeeBang}, renames |-> {Tee, Cap, NoName}, categories |-> {"cA"},
   moves |-> {"cB", Absent}, brands |-> Brands, rebrands |-> {Absent}, prices |-> {"10"},
   colors |-> {"X"}, vids |-> {1}, recolors |-> {"X", "Y"},
   forms |-> {"array"}, files |-> {{}}, len |-> 1]

ConcCreates == CreateInputs(ConcScope)
ConcUpdates == UpdateInputs(ConcScope)

\* The first client sends any request of the scope, the second one creates.
Next ==
  \/ Requests(1, ConcCreates, ConcUpdates)
  \/ Step(1)
  \/ CanStart(2) /\ FreeIds # {} /\ \E in \in ConcCreates : StartCreate(2, in)
  \/ CreateSteps(2)
  \/ StoreFails(2)

Spec == Init /\ [][Next]_vars

\* Two clients, each updating a product of its own: the requests in flight
\* together are mutations of different products.
PairScope ==
  [names |-> {Tee, Cap}, renames |-> {NoName}, categories |-> {"cA"},
   moves |-> {"cB", Absent}, brands |-> Brands, rebrands |-> {Absent}, prices |-> {"10"},
   colors |-> {"X"}, vids |-> {1}, recolors |-> {"X", "Y"},
   forms |-> {"array"}, files |-> {{}}, len |-> 1]

PairCreates == CreateInputs(PairScope)
PairUpdates == UpdateInputs(PairScope)

\* the updates client r sends
OwnUpdates(r) == { in \in PairUpdates : in.idOk => in.id = r }

NextPair == \E r \in Slots : Requests(r, PairCreates, OwnUpdates(r)) \/ Step(r)

SpecPair == Init /\ [][NextPair]_vars

\* One request at a time, two products, category and brand ids that refer
\* to a document and that refer to none, in creates and in updates.
RefScope ==
  [names |-> {Tee, Cap}, renames |-> {NoName}, categories |-> {"cA", GhostCategory},
   moves |-> {"cB", GhostCategory, Absent}, brands |-> Brands \cup {GhostBrand},
   rebrands |-> Brands \cup {GhostBrand, Absent}, prices |-> {"10"},
   colors |-> {"X"}, vids |-> {1}, recolors |-> {"X", "Y"},
   forms |-> {"array"}, files |-> {{}}, len |-> 1]

RefCreates == CreateInputs(RefScope)
RefUpdates == UpdateInputs(RefScope)

NextRefs == Requests(1, RefCreates, RefUpdates) \/ Step(1)

SpecRefs == Init /\ [][NextRefs]_vars

\* One product request at a time next to the brand requests: products of the
\* brands, brands created, renamed and deleted.
BrandScope ==
  [names |-> {Tee, Cap}, renames |-> {NoName}, categories |-> {"cA"},
   moves |-> {"cB", Absent}, brands |-> BrandIds, rebrands |-> {"b1", Absent},
   prices |-> {"10"}, colors |-> {"X"}, vids |-> {1}, recolors |-> {"X", "Y"},
   forms |-> {"array"}, files |-> {{}}, len |-> 1]

BrandCreates == CreateInputs(BrandScope)
BrandUpdates == UpdateInputs(BrandScope)

NextBrands ==
  \/ Requests(1, BrandCreates, BrandUpdates)
  \/ Step(1)
  \/ CreateBrand(Acme)
  \/ \E id \in BrandIds : UpdateBrand(id, Acme)
  \/ \E id \in BrandIds : DeleteBrandCheck(id)
  \/ DeleteBrandDelete

SpecBrands == Init /\ [][NextBrands]_vars

\* The brand requests alone: brands created, renamed and deleted.
BrandNames == {Acme, Apex, << "a", "p", "e", "x" >>, << "!" >>}

NextBrandNames ==
  \/ \E name \in BrandNames : CreateBrand(name)
  \/ \E id \in BrandIds, name \in BrandNames : UpdateBrand(id, name)
  \/ \E id \in BrandIds : DeleteBrandCheck(id)
  \/ DeleteBrandDelete
  \/ Deliver

SpecBrandNames == Init /\ [][NextBrandNames]_vars

\* ----------------------------------------------------------------- claims
\* the stored products that reference category c, color c
LiveCategory(c) == Cardinality({ p \in DOMAIN products : products[p].category = c })
LiveColor(c) ==
  Cardinality({ p \in DOMAIN products :
                  \E i \in DOMAIN products[p].variants : products[p].variants[i].color = c })

\* the colors a list of variants references
Referenced(variants) ==
  { variants[i].color : i \in DOMAIN variants } \cap Colors

\* the request of slot r ends with this step
Ends(r) == pc[r] # "idle" /\ pc'[r] = "idle"

\* C1: whatever requests have completed, every Category's productCount is the
\* number of stored products whose category is that Category.
C1_CategoryCounter == \A c \in Categories : catCount[c] = LiveCategory(c)

\* Two products are stored, an update has moved one of them: both are counted
\* by cB, none by cA.
C1_Witness ==
  /\ last.op = "update" /\ last.status = 200
  /\ Cardinality(DOMAIN products) = 2
  /\ catCount["cA"] = 0 /\ catCount["cB"] = 2

\* C2: whatever requests have completed, every Color's productCount is the
\* number of stored products with at least one variant of that Color.
C2_ColorCounter == \A c \in Colors : colCount[c] = LiveColor(c)

\* Two products share X, one of them has a second variant of color Y.
C2_Witness ==
  /\ last.status \in {200, 201}
  /\ \E p \in DOMAIN products : Referenced(products[p].variants) = {"X", "Y"}
  /\ colCount["X"] = 2 /\ colCount["Y"] = 1

\* the three effects of the create of slot r, applied by one step
CreateEffects(r) ==
  LET q == rq[r]
  IN  /\ q.pid \notin DOMAIN products
      /\ DOMAIN products' = DOMAIN products \cup {q.pid}
      /\ \A p \in DOMAIN products : products'[p] = products[p]
      /\ products'[q.pid].slug = q.slug
      /\ catCount' = [catCount EXCEPT ![q.category] = @ + 1]
      /\ colCount' = [c \in Colors |->
                        colCount[c] + IF c \in Referenced(q.variants) THEN 1 ELSE 0]

\* C3: a step of a createProduct request either leaves the products and the
\* counters as they are or is the commit that stores the product, adds 1 to
\* its category and 1 to each distinct color of its variants; a request that
\* fails before or at its commit ends with the product not stored.
C3_CreateAtomic ==
  [][\A r \in Slots :
       rq[r].op = "create" /\ pc'[r] # pc[r] =>
         \/ pc[r] = "c_commit" /\ pc'[r] = "c_fetch" /\ CreateEffects(r)
         \/ /\ store' = store
            /\ (Ends(r) /\ pc[r] # "c_fetch") => rq[r].pid \notin DOMAIN products']_vars

\* The insert and both increments are written under the session and nothing
\* of them is stored yet.
C3_Witness ==
  \E r \in Slots :
    /\ pc[r] = "c_commit" /\ tx[r].prod # << >>
    /\ tx[r].catD[rq[r].category] = 1
    /\ Cardinality({ c \in Colors : tx[r].colD[c] = 1 }) = 2
    /\ ~Exists(rq[r].pid)

\* C4: an update that changes the category of its product from A to B and
\* commits leaves A.productCount lower by 1 and B.productCount higher by 1;
\* every other step of it leaves the counters and the products unchanged.
C4_CategoryMove ==
  [][\A r \in Slots :
       LET q == rq[r]
       IN  ( /\ q.op = "update" /\ pc'[r] # pc[r]
             /\ q.category \in Categories
             /\ q.category # q.old[1].category
             /\ q.old[1].category = products[q.pid].category ) =>
             \/ /\ pc[r] = "u_commit" /\ last'.status = 200
                /\ products'[q.pid].category = q.category
                /\ catCount'[q.old[1].category] = catCount[q.old[1].category] - 1
                /\ catCount'[q.category] = catCount[q.category] + 1
             \/ store' = store]_vars

\* An update is about to commit a move: -1 and +1 are written under its
\* session.
C4_Witness ==
  \E r \in Slots :
    /\ rq[r].op = "update" /\ pc[r] = "u_commit"
    /\ rq[r].old[1].category = "cA" /\ tx[r].prod[1].category = "cB"
    /\ tx[r].catD["cA"] = -1 /\ tx[r].catD["cB"] = 1

C6_DeleteCompletes ==
  [][\A r \in Slots :
       (rq[r].op = "delete" /\ Ends(r) /\ last'.cause # "store") =>
         LET old == rq[r].old[1]
         IN  /\ last'.status = 200
             /\ rq[r].pid \notin DOMAIN products'
             /\ catCount' = [c \in Categories |->
                               catCount[c] - IF c = old.category THEN 1 ELSE 0]
             /\ colCount' = [c \in Colors |->
                               colCount[c] - IF c \in Referenced(old.variants) THEN 1 ELSE 0]]_vars

\* C7: a createProduct request that has passed the checks of its fields,
\* with a name whose slug a stored product holds, is answered 409 and leaves
\* the products and the counters unchanged.
C7_DuplicateSlug ==
  [][\A r \in Slots :
       ( /\ pc[r] = "c_slug" /\ pc'[r] # "c_slug"
         /\ \E p \in DOMAIN products : products[p].slug = Slugify(rq[r].name) ) =>
         /\ last'.op = "create" /\ last'.status = 409
         /\ store' = store]_vars

\* The request names "tee!" while a product named "Tee" is stored.
C7_Witness ==
  \E r \in Slots :
    /\ pc[r] = "c_slug" /\ rq[r].name = TeeBang
    /\ \E p \in DOMAIN products : products[p].name = Tee

\* C8: a createProduct request whose variants field is absent, [] or the
\* text "[]" goes no further than the check of its fields: it is answered
\* 422 and the products and the counters are unchanged.
C8_ZeroVariants ==
  [][/\ \A r \in Slots : ~rq'[r].zero
     /\ (last' # last /\ last'.op = "create" /\ last'.zero) =>
          (last'.status = 422 /\ store' = store)]_vars

\* Such a request has been answered while a product is stored.
C8_Witness ==
  /\ last.op = "create" /\ last.zero /\ last.status = 422
  /\ products # << >>

\* C9: a step that answers a createProduct or updateProduct request with a
\* client error has written no document and destroyed no asset.
C9_ValidationBeforeMutation ==
  [][( /\ last' # last
       /\ last'.op \in {"create", "update"}
       /\ last'.status \in 400 .. 499 ) =>
       (store' = store /\ destroyed' = destroyed)]_vars

C10_RenameOvertaken ==
  \E r \in Slots :
    /\ rq[r].op = "update" /\ pc[r] \in SessionPcs
    /\ rq[r].slug # rq[r].old[1].slug
    /\ \E p \in DOMAIN products : p # rq[r].pid /\ products[p].slug = rq[r].slug

\* what the request of slot r is to add to the counter of category c, of
\* color c: +1 for what its product comes to reference, -1 for what it leaves
CategoryAdjust(r, c) ==
  LET q == rq[r]
  IN  IF q.op = "create" THEN (IF c = q.category THEN 1 ELSE 0)
      ELSE IF q.category = Absent \/ q.category = q.old[1].category THEN 0
      ELSE (IF c = q.category THEN 1 ELSE 0) - (IF c = q.old[1].category THEN 1 ELSE 0)

ColorAdjust(r, c) ==
  LET q == rq[r]
      Old == IF q.op = "create" THEN {} ELSE Referenced(q.old[1].variants)
      New == Referenced(q.variants)
  IN  IF c \in New \ Old THEN 1 ELSE IF c \in Old \ New THEN -1 ELSE 0

\* the step is the commit of the create or update of slot r
Commits(r) ==
  \/ pc[r] = "c_commit" /\ pc'[r] = "c_fetch"
  \/ pc[r] = "u_commit" /\ Ends(r) /\ last'.status = 200

\* C11: the commit of a product mutation adds its adjustments to the
\* counters as they are then, whatever another mutation in flight has read,
\* written or committed since it began: after both have committed every
\* counter is its initial value plus both adjustments.
C11_NoLostUpdate ==
  [][\A r \in Slots :
       Commits(r) =>
         /\ \A c \in Categories : catCount'[c] = catCount[c] + CategoryAdjust(r, c)
         /\ \A c \in Colors : colCount'[c] = colCount[c] + ColorAdjust(r, c)]_vars

\* An update that takes its product out of cA and X and a create that puts
\* its product into cA and X are both about to commit.
C11_Witness ==
  /\ pc[1] = "u_commit" /\ pc[2] = "c_commit"
  /\ tx[1].catD["cA"] = -1 /\ tx[2].catD["cA"] = 1
  /\ tx[1].colD["X"] = -1 /\ tx[2].colD["X"] = 1

\* C12: no deleteProduct request is ended by a failure to remove an image
\* asset of its product: such a failure is answered 200 like none.
C12_CleanupBestEffort ==
  [][(last' # last /\ last'.op = "delete" /\ last'.cause = "asset") =>
       last'.status = 200]_vars

\* ------------------------------------------------------- listing requests
NumberTexts == {NoParam, NotANumber, NumText(-1), NumText(0), NumText(1), NumText(2)}
PriceTexts == {NoParam, NotANumber, NumText(-5), NumText(0), NumText(10), NumText(50)}
Flags == {"absent", "true", "false", "yes"}
CategoryTexts == {"", "cA", "shirts", "nope"}
ListsOver(elems) ==
  {NoParam} \cup { ListString(l) : l \in SeqsUpTo(elems, MaxList) \ {<< >>} }
            \cup { ListArray(l) : l \in SeqsUpTo(elems, MaxList) \ {<< >>} }

PlainRequest ==
  [page |-> NoParam, limit |-> NoParam, category |-> "", colors |-> NoParam,
   brands |-> NoParam, minPrice |-> NoParam, maxPrice |-> NoParam,
   available |-> "absent", soldOut |-> "absent"]

Listings == {"getProducts", "getCustomerProducts", "filterCustomerProducts"}

PagingCalls ==
  { NewCall(fn, [PlainRequest EXCEPT !.page = p, !.limit = l]) :
      fn \in Listings, p \in NumberTexts, l \in NumberTexts }

IdListCalls ==
  { NewCall(fn, [PlainRequest EXCEPT !.colors = c, !.brands = b]) :
      fn \in Listings \ {"getProducts"},
      c \in ListsOver({"X", "bad", "", " "}),
      b \in {NoParam, ListString(<< "b1" >>), ListArray(<< "b1", " " >>), ListString(<< "bad" >>)} }

FilterCalls ==
  { NewCall(fn, [PlainRequest EXCEPT !.category = c, !.minPrice = lo, !.maxPrice = hi,
                                     !.available = a, !.soldOut = so]) :
      fn \in Listings, c \in CategoryTexts, lo \in PriceTexts, hi \in PriceTexts,
      a \in Flags, so \in Flags \ {"yes"} }

InitListing ==
  /\ products = << >>
  /\ catCount = NoDelta(Categories)
  /\ colCount = NoDelta(Colors)
  /\ destroyed = {}
  /\ pc = [r \in Slots |-> "idle"]
  /\ rq = [r \in Slots |-> IdleRq]
  /\ tx = [r \in Slots |-> EmptyTx]
  /\ last = NoResponse
  /\ brandDocs = InitialBrands
  /\ call \in PagingCalls \cup IdListCalls \cup FilterCalls

NextListing ==
  \/ GetProducts
  \/ GetCustomerProducts
  \/ FilterCustomerProducts
  \/ CountDocuments
  \/ Find
  \/ FindRelated

SpecListing == InitListing /\ [][NextListing]_vars

\* the requests of the customer endpoints
CustomerEndpoints ==
  {"getCustomerProductById", "getCustomerProducts", "getNewArrivals",
   "filterCustomerProducts", "getDealsOfTheMonth"}

ByIdCalls ==
  { NewCall("getCustomerProductById", [id |-> i]) : i \in NotAnId .. NoSuchProduct }

NewArrivalCalls ==
  { NewCall("getNewArrivals", [limit |-> l, tags |-> t]) :
      l \in NumberTexts, t \in ListsOver({"NEW", "sale", "old", " "}) }

DealCalls == { NewCall("getDealsOfTheMonth", [month |-> "this"]) }

InitCustomer ==
  /\ products = << >>
  /\ catCount = NoDelta(Categories)
  /\ colCount = NoDelta(Colors)
  /\ destroyed = {}
  /\ pc = [r \in Slots |-> "idle"]
  /\ rq = [r \in Slots |-> IdleRq]
  /\ tx = [r \in Slots |-> EmptyTx]
  /\ last = NoResponse
  /\ brandDocs = InitialBrands
  /\ call \in { c \in PagingCalls \cup FilterCalls : c.fn # "getProducts" }
               \cup ByIdCalls \cup NewArrivalCalls \cup DealCalls

NextCustomer ==
  \/ GetCustomerProductById
  \/ IncViewCount
  \/ ViewCountFails
  \/ GetCustomerProducts
  \/ GetNewArrivals
  \/ FilterCustomerProducts
  \/ CountDocuments
  \/ Find
  \/ FindRelated
  \/ GetDealsOfTheMonth

SpecCustomer == InitCustomer /\ [][NextCustomer]_vars
\* ------------------------------------------------------- listing claims
\* C13: in getProducts, getCustomerProducts and filterCustomerProducts an
\* accepted request fetches its page with the very filter it counted with:
\* every returned product matches the counted filter, the page is the window
\* of the counted products, and totalItems is their number.
C13_CountMatchesFetch ==
  (call.fn \in Listings /\ call.pc = "done" /\ call.status = 200) =>
    /\ call.fetched = call.counted
    /\ call.total = Len(Matching(call.counted))
    /\ \A i \in DOMAIN call.items : Matches(Catalog[call.items[i]], call.counted)
    /\ call.items = Window(Matching(call.counted), call.skip, call.limit)

C13_Witness ==
  /\ call.fn = "getCustomerProducts"
  /\ call.pc = "done"
  /\ call.status = 200
  /\ call.counted.soldOut = {FALSE}
  /\ call.total = 3
  /\ call.items = << 2 >>
\* the price bounds of the request are off: one is negative, or the lower
\* one exceeds the upper one
BadPriceBounds(req) ==
  \/ req.minPrice.k = "num" /\ req.minPrice.n < 0
  \/ req.maxPrice.k = "num" /\ req.maxPrice.n < 0
  \/ req.minPrice.k = "num" /\ req.maxPrice.k = "num" /\ req.minPrice.n > req.maxPrice.n

\* C14: a filterCustomerProducts request with a negative minPrice or
\* maxPrice, or with minPrice above maxPrice, never gets a filter built or a
\* product query run: it ends with status 400.
C14_PriceBounds ==
  (call.fn = "filterCustomerProducts" /\ BadPriceBounds(call.req)) =>
    /\ call.pc \in {"start", "done"}
    /\ call.query = NoQuery
    /\ ~call.ran
    /\ call.pc = "done" => call.status = 400

C14_Witness ==
  /\ call.fn = "filterCustomerProducts"
  /\ call.req.minPrice = NumText(50)
  /\ call.req.maxPrice = NumText(10)
  /\ call.pc = "done"
  /\ call.status = 400
  /\ call.cause = "priceRange"
\* a list parameter is supplied and one of its elements is no id (the empty
\* string is no list at all)
HasInvalidElement(list) ==
  \/ list.k = "array" /\ \E i \in DOMAIN list.items : ~IsValidObjectId(list.items[i])
  \/ list.k = "string" /\ list.parts # << "" >>
       /\ \E i \in DOMAIN list.parts : ~IsValidObjectId(list.parts[i])

\* C15: a getCustomerProducts or filterCustomerProducts request whose colors
\* or brands list has an element that is no valid id never gets a product
\* query run, with or without that element: it ends with status 400.
C15_FailClosed ==
  (/\ call.fn \in {"getCustomerProducts", "filterCustomerProducts"}
   /\ HasInvalidElement(call.req.colors) \/ HasInvalidElement(call.req.brands)) =>
    /\ call.pc \in {"start", "done"}
    /\ ~call.ran
    /\ call.pc = "done" => call.status = 400
\* the text of an integer that is zero or negative
NonPositive(v) == v.k = "num" /\ v.n < 1

\* C16: a filterCustomerProducts request whose page or limit is zero or
\* negative ends with status 400, no product read; an accepted request has
\* page >= 1, limit >= 1 and the window skip = (page - 1) * limit of limit
\* products.
C16_Pagination ==
  call.fn = "filterCustomerProducts" =>
    /\ (NonPositive(call.req.page) \/ NonPositive(call.req.limit)) =>
         /\ call.pc \in {"start", "done"}
         /\ ~call.ran
         /\ call.pc = "done" => call.status = 400
    /\ call.pc \in {"count", "find"} =>
         LET page == IF call.req.page.k = "num" THEN call.req.page.n ELSE 1
         IN  /\ page >= 1
             /\ call.limit >= 1
             /\ call.skip = (page - 1) * call.limit
\* some size of a variant of the product is in stock
InStock(d) == \E i \in DOMAIN d.qty : d.qty[i] > 0

\* C17: the products a filterCustomerProducts request with available=true
\* counts are the visible products with a size in stock, and the products
\* a request with available=false counts are the visible products with no
\* size in stock.
C17_Availability ==
  (/\ call.fn = "filterCustomerProducts"
   /\ call.pc = "done"
   /\ call.status = 200
   /\ call.req = [PlainRequest EXCEPT !.available = call.req.available]
   /\ call.req.available \in {"true", "false"}) =>
    { call.items[i] : i \in DOMAIN call.items } =
      { d \in DOMAIN Catalog :
          Catalog[d].visible /\ (InStock(Catalog[d]) <=> call.req.available = "true") }
\* ------------------------------------------------------ slug normalization
\* The places that normalize a string: the product slug of createProduct and
\* updateProduct, the slug of the Brand pre-save hook, the tags and the
\* collections of parseJsonField.
SlugSites == {"productSlug", "brandSlug", "tag", "collection"}

\* characters of every class the two replacements tell apart, and one that
\* toLowerCase leaves outside a-z
SlugAlphabet == {"A", "Z", "b", "7", "-", " ", "!", "\\u00e9"}

InitSlug ==
  /\ products = << >>
  /\ catCount = NoDelta(Categories)
  /\ colCount = NoDelta(Colors)
  /\ destroyed = {}
  /\ pc = [r \in Slots |-> "idle"]
  /\ rq = [r \in Slots |-> IdleRq]
  /\ tx = [r \in Slots |-> EmptyTx]
  /\ last = NoResponse
  /\ brandDocs = InitialBrands
  /\ call \in { [fn |-> f, input |-> s, pc |-> "start", out |-> << >>, again |-> << >>] :
                  f \in SlugSites, s \in SeqsUpTo(SlugAlphabet, MaxName) }

\* value.toLowerCase().replace(/[^a-z0-9]+/g, '-').replace(/^-+|-+$/g, '')
Normalize ==
  /\ call.fn \in SlugSites
  /\ call.pc = "start"
  /\ call' = [call EXCEPT !.pc = "normalized", !.out = Slugify(call.input)]
  /\ ListingIdle

\* the stored value is sent back and normalized once more
NormalizeAgain ==
  /\ call.fn \in SlugSites
  /\ call.pc = "normalized"
  /\ call' = [call EXCEPT !.pc = "again", !.again = Slugify(call.out)]
  /\ ListingIdle

NextSlug == Normalize \/ NormalizeAgain

SpecSlug == InitSlug /\ [][NextSlug]_vars

\* ^[a-z0-9]+(-[a-z0-9]+)*$
MatchesSlug(s) ==
  /\ s # << >>
  /\ \A i \in DOMAIN s : s[i] \in AlphaNum \cup {"-"}
  /\ s[1] # "-"
  /\ s[Len(s)] # "-"
  /\ \A i \in 1 .. Len(s) - 1 : ~(s[i] = "-" /\ s[i + 1] = "-")

\* C18: the normalized form of any string is empty or lowercase
\* alphanumeric runs joined by single hyphens, and normalizing it again
\* gives it back unchanged.
C18_SlugNormalForm ==
  (call.fn \in SlugSites /\ call.pc \in {"normalized", "again"}) =>
    /\ call.out = << >> \/ MatchesSlug(call.out)
    /\ call.pc = "again" => call.again = call.out

C18_Witness ==
  /\ call.fn = "brandSlug"
  /\ call.input = << "A", "!", " ", "b" >>
  /\ call.pc = "again"
  /\ call.out = << "a", "-", "b" >>
  /\ call.again = call.out
\* ------------------------------------------------------- transformResponse
\* The response projection of updateProduct, on documents kept in a heap so
\* that a write to the argument shows. A value is undefined, a string, an
\* ObjectId, a Date, a plain object without references (what the spread of
\* an ObjectId or of a Date leaves) or a reference to a node of the heap; a
\* node is an object (its fields) or an array (its items).
Val(k, s, a) == [k |-> k, s |-> s, a |-> a]
Undef == Val("undef", "", 0)
Str(s) == Val("str", s, 0)
Oid(hex) == Val("oid", hex, 0)
Date(iso) == Val("date", iso, 0)
Plain(s) == Val("plain", s, 0)
Ref(a) == Val("ref", "", a)

KeyOrder == << "_id", "id", "createdAt", "updatedAt", "category", "variants" >>
Keys == { KeyOrder[i] : i \in DOMAIN KeyOrder }
NoFields == [key \in Keys |-> Undef]
ObjNode(f) == [t |-> "obj", f |-> f, items |-> << >>]
ArrNode(items) == [t |-> "arr", f |-> NoFields, items |-> items]

\* an object that is changed where it stands: no copy is made
SameObject(h, a) == [heap |-> h, at |-> a]

\* const newObj = { ...obj }
CopyObject(h, a) == [heap |-> Append(h, h[a]), at |-> Len(h) + 1]

\* the _id of newObj: an ObjectId becomes its hex string (by its buffer or
\* by toString), any other object its toString
IdToString(v) ==
  IF v.k = "oid" THEN Str(v.s)
  ELSE IF v.k = "plain" THEN Str("[object Object]")
  ELSE v

\* createdAt and updatedAt: a Date becomes its ISO string
DateToIso(v) == IF v.k = "date" THEN Str(v.s) ELSE v

RECURSIVE TransformResponse(_, _)
RECURSIVE TransformItems(_, _)
RECURSIVE TransformFields(_, _, _)

\* obj.map((item) => transformResponse(item)): the heap after the calls and
\* the items of the new array
TransformItems(h, items) ==
  IF items = << >> THEN [heap |-> h, items |-> << >>]
  ELSE LET first == TransformResponse(h, Head(items))
           rest == TransformItems(first.heap, Tail(items))
       IN  [heap |-> rest.heap, items |-> << first.val >> \o rest.items]

\* Object.keys(newObj).forEach((key) => { newObj[key] = transformResponse(newObj[key]) })
TransformFields(h, at, keys) ==
  IF keys = << >> THEN h
  ELSE LET r == TransformResponse(h, h[at].f[Head(keys)])
       IN  TransformFields([r.heap EXCEPT ![at].f[Head(keys)] = r.val], at, Tail(keys))

\* transformResponse(obj): the heap after the call and the value returned
TransformResponse(h, v) ==
  IF v.k = "ref" /\ h[v.a].t = "arr"
    THEN LET r == TransformItems(h, h[v.a].items)
         IN  [heap |-> Append(r.heap, ArrNode(r.items)), val |-> Ref(Len(r.heap) + 1)]
  ELSE IF v.k = "ref"
    THEN LET c == CopyObject(h, v.a)
             f == c.heap[c.at].f
             g == [f EXCEPT !["_id"] = IdToString(f["_id"]),
                            !["createdAt"] = DateToIso(f["createdAt"]),
                            !["updatedAt"] = DateToIso(f["updatedAt"]),
                            !["id"] = Undef]
             h1 == [c.heap EXCEPT ![c.at].f = g]
         IN  [heap |-> TransformFields(h1, c.at, KeyOrder), val |-> Ref(c.at)]
  ELSE IF v.k = "oid" THEN [heap |-> h, val |-> Plain(v.s)]
  ELSE IF v.k = "date" THEN [heap |-> h, val |-> Plain("")]
  ELSE [heap |-> h, val |-> v]

\* the documents: a product (node 1) with a category that is an id or a
\* populated object (node 2) and a list (node 3) of strings, ids and objects
Documents ==
  { << ObjNode([NoFields EXCEPT !["_id"] = Oid("aa"), !["id"] = id1, !["createdAt"] = at1,
                                !["category"] = cat, !["variants"] = list]),
       ObjNode([NoFields EXCEPT !["_id"] = id2, !["id"] = idv2, !["updatedAt"] = at2]),
       ArrNode(items) >> :
      id1 \in {Undef, Str("aa")},
      at1 \in {Undef, Date("2024"), Str("2024")},
      cat \in {Undef, Oid("cc"), Ref(2)},
      list \in {Undef, Ref(3)},
      id2 \in {Oid("cc"), Str("cc")},
      idv2 \in {Undef, Str("cc")},
      at2 \in {Undef, Date("2025")},
      items \in SeqsUpTo({Str("s"), Oid("dd"), Ref(2)}, MaxList) }

InitProjection ==
  /\ products = << >>
  /\ catCount = NoDelta(Categories)
  /\ colCount = NoDelta(Colors)
  /\ destroyed = {}
  /\ pc = [r \in Slots |-> "idle"]
  /\ rq = [r \in Slots |-> IdleRq]
  /\ tx = [r \in Slots |-> EmptyTx]
  /\ last = NoResponse
  /\ brandDocs = InitialBrands
  /\ call \in { [fn |-> "transformResponse", pc |-> "start", given |-> d, heap |-> d,
                 once |-> Undef, twice |-> Undef] : d \in Documents }

\* const cleanedProduct = transformResponse(updatedProduct.toJSON(...))
Project ==
  /\ call.fn = "transformResponse"
  /\ call.pc = "start"
  /\ LET r == TransformResponse(call.heap, Ref(1))
     IN  call' = [call EXCEPT !.pc = "once", !.heap = r.heap, !.once = r.val]
  /\ ListingIdle

\* transformResponse on what it returned
ProjectAgain ==
  /\ call.fn = "transformResponse"
  /\ call.pc = "once"
  /\ LET r == TransformResponse(call.heap, call.once)
     IN  call' = [call EXCEPT !.pc = "twice", !.heap = r.heap, !.twice = r.val]
  /\ ListingIdle

NextProjection == Project \/ ProjectAgain

SpecProjection == InitProjection /\ [][NextProjection]_vars

\* two values of a heap are equal as documents
RECURSIVE SameDocument(_, _, _)
SameDocument(h, v, w) ==
  IF v.k = "ref" /\ w.k = "ref"
    THEN /\ h[v.a].t = h[w.a].t
         /\ Len(h[v.a].items) = Len(h[w.a].items)
         /\ \A i \in DOMAIN h[v.a].items : SameDocument(h, h[v.a].items[i], h[w.a].items[i])
         /\ \A key \in Keys : SameDocument(h, h[v.a].f[key], h[w.a].f[key])
    ELSE v = w

\* C19: transformResponse leaves the document it is given as it was, nested
\* objects and arrays included, and applied to its own result it returns a
\* document equal to that result.
C19_ProjectionPureIdempotent ==
  (call.fn = "transformResponse" /\ call.pc # "start") =>
    /\ \A a \in DOMAIN call.given : call.heap[a] = call.given[a]
    /\ call.pc = "twice" => SameDocument(call.heap, call.twice, call.once)

C19_Witness ==
  /\ call.fn = "transformResponse"
  /\ call.pc = "twice"
  /\ call.given[1].f["id"] = Str("aa")
  /\ call.given[1].f["createdAt"] = Date("2024")
  /\ call.given[1].f["category"] = Ref(2)
  /\ call.given[3].items = << Oid("dd"), Ref(2) >>
  /\ call.given[1].f["variants"] = Ref(3)
  /\ call.once.k = "ref"
  /\ call.heap[call.once.a].f["_id"] = Str("aa")
  /\ call.heap[call.once.a].f["id"] = Undef
  /\ call.heap[call.once.a].f["createdAt"] = Str("2024")
\* ------------------------------------------------------ reference integrity
\* C20: createProduct and updateProduct refuse a category id or a brand id
\* of no document before they write, so the category and the brand of every
\* stored product are ids of a Category and of a Brand.
C20_ReferenceIntegrity ==
  \A p \in DOMAIN products :
    /\ products[p].category \in Categories
    /\ products[p].brand \in Brands
\* ------------------------------------------------------- update payloads
\* C21: no updateProduct request whose variants, sent as an array or as JSON
\* text, have an entry with neither _id nor color gets past its checks: it
\* is answered with a client error before anything is written.
C21_NeitherRejected ==
  \A r \in Slots : ~(rq[r].op = "update" /\ rq[r].neither)
\* The merge of updateProduct on its own: the variants of a stored product
\* and the entries of a body.
InitMerge ==
  /\ products = << >>
  /\ catCount = NoDelta(Categories)
  /\ colCount = NoDelta(Colors)
  /\ destroyed = {}
  /\ pc = [r \in Slots |-> "idle"]
  /\ rq = [r \in Slots |-> IdleRq]
  /\ tx = [r \in Slots |-> EmptyTx]
  /\ last = NoResponse
  /\ brandDocs = InitialBrands
  /\ call \in { [fn |-> "mergeVariants", pc |-> "start", existing |-> ex, body |-> b,
                 out |-> << >>] :
                  ex \in SeqsUpTo([color : {"X", "Y"}, img : BOOLEAN], MaxPayload),
                  b \in SeqsUpTo([vid : 0 .. MaxPayload + 1, color : {"X", "Z", NoColor}],
                                 MaxPayload) }

\* let updatedVariants = [...product.variants.map((v) => v.toObject())] and
\* the forEach of lines 579-608
Merge ==
  /\ call.fn = "mergeVariants"
  /\ call.pc = "start"
  /\ LET incoming == [i \in DOMAIN call.body |->
                        [vid |-> call.body[i].vid, color |-> call.body[i].color,
                         form |-> "id"]]
         updated == [i \in DOMAIN call.existing |-> Populated(call.existing[i])]
     IN  call' = [call EXCEPT !.pc = "done",
                              !.out = MergeVariants(updated, << >>, incoming)]
  /\ ListingIdle

SpecMerge == InitMerge /\ [][Merge]_vars

\* the color of existing variant i after the entries of the body with its
\* id, in their order
RECURSIVE Patched(_, _, _)
Patched(color, i, body) ==
  IF body = << >> THEN color
  ELSE Patched(IF Head(body).vid = i /\ Head(body).color # NoColor
                 THEN Head(body).color ELSE color,
               i, Tail(body))

\* the entries of the body that match no existing variant and have a color
Unmatched(existing, body) ==
  SelectSeq(body, LAMBDA e : e.vid \notin DOMAIN existing /\ e.color # NoColor)

\* C22: the merged list is the existing variants in their order, each with
\* the color of the body's entry of its id where that entry has one and its
\* images kept, followed by one new variant per entry of the body that
\* matches no existing variant and has a color.
C22_MergeKeepsAll ==
  (call.fn = "mergeVariants" /\ call.pc = "done") =>
    LET new == Unmatched(call.existing, call.body)
    IN  /\ Len(call.out) = Len(call.existing) + Len(new)
        /\ \A i \in DOMAIN call.existing :
             /\ call.out[i].color = Patched(call.existing[i].color, i, call.body)
             /\ call.out[i].img = call.existing[i].img
        /\ \A j \in DOMAIN new :
             call.out[Len(call.existing) + j].color = new[j].color
\* ------------------------------------------------------------ color check
\* The color check of createProduct on its own: the variants of a body, each
\* with the id of a color, of no color, or without one.
InitColorCheck ==
  /\ products = << >>
  /\ catCount = NoDelta(Categories)
  /\ colCount = NoDelta(Colors)
  /\ destroyed = {}
  /\ pc = [r \in Slots |-> "idle"]
  /\ rq = [r \in Slots |-> IdleRq]
  /\ tx = [r \in Slots |-> EmptyTx]
  /\ last = NoResponse
  /\ brandDocs = InitialBrands
  /\ call \in { [fn |-> "colorCheck", pc |-> "start", variants |-> v, rejected |-> FALSE,
                 counted |-> {}] :
                  v \in SeqsUpTo([color : Colors \cup {GhostColor, NoColor}], MaxPayload + 1)
                          \ {<< >>} }

\* Lines 252-261: Color.find by the ids of the variants, the lengths compared
ColorCheck ==
  /\ call.fn = "colorCheck"
  /\ call.pc = "start"
  /\ LET colorIds == ColorIdList(call.variants)
     IN  call' = [call EXCEPT !.pc = IF FoundColors(colorIds) # Len(colorIds)
                                       THEN "done" ELSE "checked",
                              !.rejected = FoundColors(colorIds) # Len(colorIds)]
  /\ ListingIdle

\* Lines 339-346: the unique color ids whose counters are incremented
ColorIncrement ==
  /\ call.fn = "colorCheck"
  /\ call.pc = "checked"
  /\ call' = [call EXCEPT !.pc = "done", !.counted = DistinctColors(call.variants)]
  /\ ListingIdle

NextColorCheck == ColorCheck \/ ColorIncrement

SpecColorCheck == InitColorCheck /\ [][NextColorCheck]_vars

\* C23: the color check of createProduct rejects a request exactly when one
\* of its variants has the id of no color; two variants of one color do not
\* make it reject.
C23_ColorMembership ==
  (call.fn = "colorCheck" /\ call.pc # "start") =>
    (call.rejected <=>
       \E i \in DOMAIN call.variants :
         call.variants[i].color # NoColor /\ call.variants[i].color \notin Colors)
\* ------------------------------------------------------- session lifecycle
\* the transaction of the request of slot r has been committed
AfterCommit(r) == pc[r] = "c_fetch"

\* the step ends the request of slot r through a catch block of its session:
\* session.abortTransaction() is called and a 500 follows
AbortCalled(r) == Ends(r) /\ rq[r].op = last'.op /\ last'.status = 500

\* C24: a transaction that has been committed is never aborted: a request
\* ends in one terminal state of its session, committed or aborted.
C24_CommitXorAbort ==
  [][\A r \in Slots : AfterCommit(r) => ~AbortCalled(r)]_vars
\* ------------------------------------------------------ listing agreement
\* the price bounds or the window of the request are what
\* filterCustomerProducts is specified to refuse
BadBoundsOrWindow(req) ==
  BadPriceBounds(req) \/ NonPositive(req.page) \/ NonPositive(req.limit)

\* C25: getProducts and getCustomerProducts answer a request (category valid
\* or absent, no id lists) with 400 exactly when a price bound is negative,
\* minPrice exceeds maxPrice, or page or limit is not positive; they answer
\* no such request with a server error and run no query for it.
C25_ListingsAgree ==
  (/\ call.fn \in {"getProducts", "getCustomerProducts"}
   /\ call.pc = "done"
   /\ call.req.category # "nope"
   /\ call.req.colors = NoParam /\ call.req.brands = NoParam) =>
    /\ call.status = 400 <=> BadBoundsOrWindow(call.req)
    /\ BadBoundsOrWindow(call.req) => ~call.ran
\* ------------------------------------------------------------ brand claims
\* C26: the brand of every stored product is the id of a stored Brand,
\* whatever the interleaving of deleteBrand with the product requests.
C26_BrandIntegrity ==
  \A p \in DOMAIN products : products[p].brand \in DOMAIN brandDocs

\* C27: the slug of every stored brand is the normalized form of its name.
C27_BrandSlugTracksName ==
  \A b \in DOMAIN brandDocs : brandDocs[b].slug = Slugify(brandDocs[b].name)
\* ------------------------------------------------------ response and outcome
\* the request of slot r ends with this step and its writes are committed:
\* by this step, or by an earlier one of the request
EndsCommitted(r) == Ends(r) /\ (Commits(r) \/ AfterCommit(r))

\* C28: a product request is answered with a 2xx exactly when its
\* transaction is committed; a request answered with a 5xx has left no write
\* in the store.
C28_ResponseMatchesOutcome ==
  [][\A r \in Slots : Ends(r) =>
        (last'.status \in 200 .. 299 <=> EndsCommitted(r))]_vars
\* ------------------------------------------------------------- visibility
\* the products a customer endpoint has put in its response
Returned(c) ==
  { c.items[i] : i \in DOMAIN c.items } \cup { c.related[i] : i \in DOMAIN c.related }

\* C29: every product a customer endpoint returns, in its page or in its
\* related products, is visible, whatever the parameters; a product's
\* viewCount is changed only by the getCustomerProductById that returns it.
C29_HiddenNeverReturned ==
  /\ call.fn \in CustomerEndpoints =>
       \A i \in Returned(call) : Catalog[i].visible
  /\ call.fn # "none" =>
       \A i \in DOMAIN Catalog : call.views[i] # 0 =>
         /\ call.fn = "getCustomerProductById"
         /\ call.pc = "done"
         /\ call.status = 200
         /\ call.items = << i >>

\* filterCustomerProducts with soldOut and available given: a hidden product
\* matches the rest of the filter and is neither on the page nor related.
C29_Witness ==
  /\ call.fn = "filterCustomerProducts"
  /\ call.pc = "done"
  /\ call.status = 200
  /\ call.req.soldOut = "false"
  /\ call.req.available = "true"
  /\ call.items = << 1 >>
  /\ call.related = << 2 >>
  /\ ~Catalog[4].visible
  /\ Matches(Catalog[4], [call.fetched EXCEPT !.visible = BOOLEAN])
\* ---------------------------------------------- updateProduct scalar fields
\* A flag of the request body: not there, the string 'true' or 'false' of a
\* form, the boolean true or false of a JSON body.
FlagAbsent == "absent"
FlagValues == {FlagAbsent, "'true'", "'false'", "true", "false"}

\* flag === 'true' || flag === true ? true : previous
TrueOrPrevious(flag, previous) ==
  IF flag = "'true'" \/ flag = "true" THEN TRUE ELSE previous

\* flag === 'false' || flag === false ? false : previous
FalseOrPrevious(flag, previous) ==
  IF flag = "'false'" \/ flag = "false" THEN FALSE ELSE previous

\* parseFloat(v) || previous: undefined and a text that is no number give
\* NaN, NaN and 0 are falsy
ParseFloatOr(v, previous) ==
  IF v.k = "num" /\ v.n # 0 THEN v.n ELSE previous

\* the scalar fields of updateData
ScalarUpdateData(body, product) ==
  [base_price |-> ParseFloatOr(body.base_price, product.base_price),
   isActive   |-> TrueOrPrevious(body.isActive, product.isActive),
   isFeatured |-> TrueOrPrevious(body.isFeatured, product.isFeatured),
   isSoldOut  |-> FalseOrPrevious(body.isSoldOut, product.isSoldOut),
   isVisible  |-> TrueOrPrevious(body.isVisible, product.isVisible),
   discount   |-> ParseFloatOr(body.discount, product.discount)]

Amounts == {NoParam, NotANumber, NumText(0), NumText(25)}

ScalarBodies ==
  [base_price : Amounts, isActive : FlagValues, isFeatured : FlagValues,
   isSoldOut : FlagValues, isVisible : FlagValues, discount : Amounts]

ScalarProducts ==
  { [base_price |-> 10, isActive |-> b, isFeatured |-> b, isSoldOut |-> b,
     isVisible |-> b, discount |-> d] : b \in BOOLEAN, d \in {0, 5} }

InitUpdateData ==
  /\ products = << >>
  /\ catCount = NoDelta(Categories)
  /\ colCount = NoDelta(Colors)
  /\ destroyed = {}
  /\ pc = [r \in Slots |-> "idle"]
  /\ rq = [r \in Slots |-> IdleRq]
  /\ tx = [r \in Slots |-> EmptyTx]
  /\ last = NoResponse
  /\ brandDocs = InitialBrands
  /\ call \in [fn : {"updateData"}, pc : {"start"}, body : ScalarBodies,
               product : ScalarProducts, out : ScalarProducts]
  /\ call.out = call.product

\* Product.findByIdAndUpdate(id, { $set: updateData }) for the scalar fields
SetUpdateData ==
  /\ call.fn = "updateData"
  /\ call.pc = "start"
  /\ call' = [call EXCEPT !.pc = "done", !.out = ScalarUpdateData(call.body, call.product)]
  /\ ListingIdle

SpecUpdateData == InitUpdateData /\ [][SetUpdateData]_vars

\* the value a supplied flag or amount stands for
FlagGiven(flag) == flag = "'true'" \/ flag = "true"
AmountGiven(v) == v.k = "num"

\* C30: after the update each flag and each amount is the value the request
\* supplies, true or false, zero or positive, and the previous value when
\* the request has none.
C30_ScalarFields ==
  (call.fn = "updateData" /\ call.pc = "done") =>
    /\ \A f \in {"isActive", "isFeatured", "isSoldOut", "isVisible"} :
         call.out[f] = IF call.body[f] = FlagAbsent THEN call.product[f]
                       ELSE FlagGiven(call.body[f])
    /\ \A f \in {"base_price", "discount"} :
         call.out[f] = IF AmountGiven(call.body[f]) THEN call.body[f].n
                       ELSE call.product[f]
====
